---- MODULE Spec2Model ----
(***************************************************************************)
(* Verification model of the IE7 content-operations bridge.                *)
(*                                                                         *)
(*   SpecQueue    the request queue of server.js (enqueueRequest,          *)
(*                processNextIfAvailable and the completion callback)      *)
(*   SpecRequest  one run of processRequestAsync of server.js              *)
(*   SpecAsm      SmartTemplateProcessor.processTemplateWithContent-       *)
(*                Generation with the section matcher and the content      *)
(*                block generator                                          *)
(*   SpecEngine   SmartTemplateProcessor.processTemplate                   *)
(*   SpecCache    the template cache of template-fetcher.js                *)
(*   SpecResolver TemplateApplier.getValueFromBrief                        *)
(*   SpecQueueFair  SpecQueue when every started run settles               *)
(*   SpecConflicts, SpecParse, SpecMatch, SpecSplit                        *)
(*                detectConflictsNatural, parseTemplate, the section       *)
(*                matcher and intelligentSplit, each applied to one input  *)
(***************************************************************************)
EXTENDS Integers, Sequences, FiniteSets, TLC

VARIABLES
  \* ---- server.js: job queue ----
  requestQueue,         \* const requestQueue = []   (request ids, FIFO)
  currentlyProcessing,  \* let currentlyProcessing = 0
  reqState,             \* per request: "new" | "rejected400" | "queued" | "running" | "finishedOk" | "finishedFailed"
  startOrder,           \* ids in the order processRequestAsync was started
  acceptOrder,          \* ids in the order enqueueRequest was called
  \* ---- server.js: one run of processRequestAsync ----
  rpc,                  \* position in processRequestAsync
  payloadShape,         \* shape of originalPayload
  webhookConfigured,    \* process.env.ERROR_WEBHOOK_URL is set
  retryCount,           \* let retryCount = 0
  createdPage,          \* let createdPage
  propsCorrected,       \* notionProperties holds LLM-corrected properties
  attempts,             \* number of API-post-page calls made
  corrections,          \* number of correction requests sent to the reasoning service
  attemptProps,         \* which properties each creation attempt was made with
  assembled,            \* templateBlocks.length
  pageBlocks,           \* blocks appended to the created page so far
  appendFailed,         \* an API-patch-block-children call threw
  successLogged,        \* line 513 reached ("Request created successfully")
  responseSent,         \* what was sent through res ("none" when nothing)
  errorCaught,          \* message of the error caught at line 539 ("none" when not entered)
  webhookPosts,         \* sequence of bodies posted to ERROR_WEBHOOK_URL
  \* ---- SmartTemplateProcessor.processTemplateWithContentGeneration ----
  apc,                  \* position: "idle" | "walk" (the for loop) | "done" | "threw"
  templateBlocks,       \* templateBlocks[0..i-1]: the blocks the loop has visited; the
                        \* template ends where Finalize is taken
  extractedData,        \* extractedData (entries in insertion order)
  originalBriefData,    \* originalBriefData (entries in insertion order)
  finalBlocks,          \* const finalBlocks = [], each block with where it came from
  currentSection,       \* let currentSection = null
  sectionInstructions,  \* let sectionInstructions = null
  skipCurrentSection,   \* let skipCurrentSection = false
  matchedDataFields,    \* const matchedDataFields = new Set()
  \* ---- SmartTemplateProcessor.processTemplate ----
  epc,                  \* position: "idle" | "fetch" | "page" | "extract" | "assemble" |
                        \* "returned" | "threw"
  isLLMOnly,            \* template.isLLMOnly of the fetched template
  extraction,           \* the answer of the reasoning service to the extraction call
  urgencyEvaluation,    \* which urgency evaluation has run: "none" | "prompt" | "keywords"
  \* ---- src/lib/template-fetcher.js ----
  cache,                \* this.cache: the keys that hold a template
  clearedSince,         \* the <<databaseId, complexityLevel>> pairs whose cache was
                        \* cleared and that no fetchTemplate call has asked for since
  lastFetch,            \* the last fetchTemplate call: its arguments, where the
                        \* template came from, and whether a clear preceded it
  \* ---- TemplateApplier.getValueFromBrief ----
  varName,              \* the variable name that is resolved
  resolved,             \* the values returned so far, latest last
  \* ---- functions applied to one input ----
  analysisConflicts,    \* analysis.conflicts = this.detectConflictsNatural(briefData, ..)
  parsedFrom,           \* SOPParser.parseTemplate: the blocks argument
  parsedTemplate,       \* SOPParser.parseTemplate: the sections returned
  splitContent,         \* intelligentSplit: the content argument
  splitMaxChars,        \* intelligentSplit: the maxChars argument
  splitChunks,          \* intelligentSplit: the chunks returned
  sectionMatch          \* the result of findMatchingDataForSectionWithTracking

queueVars == <<requestQueue, currentlyProcessing, reqState, startOrder, acceptOrder>>
reqVars == <<rpc, payloadShape, webhookConfigured, retryCount, createdPage,
             propsCorrected, attempts, corrections, attemptProps, assembled,
             pageBlocks, appendFailed, successLogged, responseSent, errorCaught,
             webhookPosts>>
asmVars == <<apc, templateBlocks, extractedData, originalBriefData, finalBlocks,
             currentSection, sectionInstructions, skipCurrentSection, matchedDataFields>>
engVars == <<epc, isLLMOnly, extraction, urgencyEvaluation>>
cacheVars == <<cache, clearedSince, lastFetch>>
resVars == <<varName, resolved>>
pureVars == <<analysisConflicts, parsedFrom, parsedTemplate, splitContent,
              splitMaxChars, splitChunks, sectionMatch>>
vars == <<queueVars, reqVars, asmVars, engVars, cacheVars, resVars, pureVars>>

(***************************************************************************)
(* Bounds of the model                                                     *)
(***************************************************************************)
NumRequests == 5        \* request ids 1..NumRequests may arrive
MaxAttempts == 5        \* cap on the creation attempts the model explores
MaxHalfBatches == 5     \* templateBlocks.length ranges over 0, 50, .., 50 * MaxHalfBatches
MaxTemplateLen == 3     \* templates of up to MaxTemplateLen blocks are assembled

Requests == 1..NumRequests

(***************************************************************************)
(* Strings.  A JavaScript string is modelled as the sequence of its        *)
(* characters; a pictograph (emoji) is written as the single character "@" *)
(* which, like every emoji, is neither a word character nor white space.   *)
(***************************************************************************)
UpperLetters == <<"A","B","C","D","E","F","G","H","I","J","K","L","M",
                  "N","O","P","Q","R","S","T","U","V","W","X","Y","Z">>
LowerLetters == <<"a","b","c","d","e","f","g","h","i","j","k","l","m",
                  "n","o","p","q","r","s","t","u","v","w","x","y","z">>
Digits == <<"0","1","2","3","4","5","6","7","8","9">>

Range(f) == {f[i] : i \in DOMAIN f}

\* \s of a JavaScript regular expression
IsSpace(c) == c \in {" ", "\n", "\t", "\r"}

ToLowerChar(c) ==
  IF c \in Range(UpperLetters) THEN LowerLetters[CHOOSE i \in DOMAIN UpperLetters : UpperLetters[i] = c] ELSE c
ToUpperChar(c) ==
  IF c \in Range(LowerLetters)
    THEN UpperLetters[CHOOSE i \in DOMAIN LowerLetters : LowerLetters[i] = c] ELSE c

\* String.prototype.toLowerCase / toUpperCase
toLowerCase(s) == [i \in DOMAIN s |-> ToLowerChar(s[i])]
\* s.replace(/[class]/g, '') keeps the characters outside the class: SelectSeq(s, keep)

\* String.prototype.trim
RECURSIVE TrimLeft(_)
TrimLeft(s) == IF s # <<>> /\ IsSpace(Head(s)) THEN TrimLeft(Tail(s)) ELSE s
RECURSIVE TrimRight(_)
TrimRight(s) ==
  IF s # <<>> /\ IsSpace(s[Len(s)]) THEN TrimRight(SubSeq(s, 1, Len(s) - 1)) ELSE s
trim(s) == TrimRight(TrimLeft(s))

\* s.startsWith(p), s.endsWith(p), s.includes(p)
startsWith(s, p) == Len(p) <= Len(s) /\ SubSeq(s, 1, Len(p)) = p
includes(s, p) == \E i \in 1..(Len(s) - Len(p) + 1) : SubSeq(s, i, i + Len(p) - 1) = p
\* index of the first occurrence of p in s at or after position from (0 when none)
IndexOfFrom(s, p, from) ==
  IF \E i \in from..(Len(s) - Len(p) + 1) : SubSeq(s, i, i + Len(p) - 1) = p
    THEN CHOOSE i \in from..(Len(s) - Len(p) + 1) :
           /\ SubSeq(s, i, i + Len(p) - 1) = p
           /\ \A j \in from..(i - 1) : SubSeq(s, j, j + Len(p) - 1) # p
    ELSE 0

\* s.split(/\s+/): the maximal runs of non-space characters, with an empty
\* first (last) element when s starts (ends) with white space
RECURSIVE SplitSpaces(_, _)
SplitSpaces(s, cur) ==
  IF s = <<>> THEN <<cur>>
  ELSE IF IsSpace(Head(s))
    THEN <<cur>> \o SplitSpaces(TrimLeft(s), <<>>)
    ELSE SplitSpaces(Tail(s), Append(cur, Head(s)))

\* s.split(sep) for a one-character separator
RECURSIVE SplitChar(_, _, _)
SplitChar(s, sep, cur) ==
  IF s = <<>> THEN <<cur>>
  ELSE IF Head(s) = sep THEN <<cur>> \o SplitChar(Tail(s), sep, <<>>)
  ELSE SplitChar(Tail(s), sep, Append(cur, Head(s)))

\* parts.join(sep)
RECURSIVE Join(_, _)
Join(parts, sep) ==
  IF parts = <<>> THEN <<>>
  ELSE IF Len(parts) = 1 THEN parts[1]
  ELSE parts[1] \o sep \o Join(Tail(parts), sep)

\* concatenation of a sequence of sequences (Array.prototype.filter is SelectSeq)
RECURSIVE Flatten(_)
Flatten(qq) == IF qq = <<>> THEN <<>> ELSE Head(qq) \o Flatten(Tail(qq))

\* String(n) for an integer n
RECURSIVE NatToChars(_)
NatToChars(n) ==
  IF n < 10 THEN <<Digits[n + 1]>> ELSE NatToChars(n \div 10) \o <<Digits[(n % 10) + 1]>>
NumberToString(n) == IF n < 0 THEN <<"-">> \o NatToChars(0 - n) ELSE NatToChars(n)

Min(a, b) == IF a < b THEN a ELSE b

\* levenshteinDistance(str1, str2): the matrix is filled row by row; row i
\* holds the distances between the first i characters of str2 and every prefix
\* of str1
RECURSIVE LevRow(_, _, _, _)
LevRow(prev, c, str1, acc) ==
  \* acc = the cells of the current row computed so far (columns 0..Len(acc)-1)
  LET j == Len(acc)
  IN IF j > Len(str1) THEN acc
     ELSE LevRow(prev, c, str1,
            Append(acc,
              IF c = str1[j] THEN prev[j]
              ELSE Min(prev[j] + 1, Min(acc[j] + 1, prev[j + 1] + 1))))
RECURSIVE LevRows(_, _, _, _)
LevRows(prev, i, str1, str2) ==
  IF i > Len(str2) THEN prev
  ELSE LevRows(LevRow(prev, str2[i], str1, <<i>>), i + 1, str1, str2)
\* stringSimilarity(str1, str2) > 0.7, i.e. (longer.length - editDistance) /
\* longer.length > 0.7, in integers; two empty strings have similarity 1.0
SimilarityAbove70(str1, str2) ==
  LET levenshteinDistance(a, b) ==
        LevRows([j \in 1..(Len(a) + 1) |-> j - 1], 1, a, b)[Len(a) + 1]
  IN
  LET longer == IF Len(str1) > Len(str2) THEN str1 ELSE str2
      shorter == IF Len(str1) > Len(str2) THEN str2 ELSE str1
  IN IF Len(longer) = 0 THEN TRUE
     ELSE 10 * (Len(longer) - levenshteinDistance(longer, shorter)) > 7 * Len(longer)

(***************************************************************************)
(* Values.  Value = Scalar | Value[] | Map<string, Value>, with the         *)
(* JavaScript distinctions the code depends on: undefined, null and         *)
(* truthiness.  Every value is a record of the same shape:                  *)
(*   t      "undefined" | "null" | "string" | "number" | "boolean" |        *)
(*          "array" | "object"                                              *)
(*   s      the characters of a string                                      *)
(*   n      the number; 1/0 for true/false                                  *)
(*   items  the elements of an array; the entries [k, v] of an object, in   *)
(*          insertion order                                                 *)
(***************************************************************************)
Undefined == [t |-> "undefined", s |-> <<>>, n |-> 0, items |-> <<>>]
Null == [t |-> "null", s |-> <<>>, n |-> 0, items |-> <<>>]
Str(chars) == [t |-> "string", s |-> chars, n |-> 0, items |-> <<>>]
Num(k) == [t |-> "number", s |-> <<>>, n |-> k, items |-> <<>>]
Bool(b) == [t |-> "boolean", s |-> <<>>, n |-> IF b THEN 1 ELSE 0, items |-> <<>>]
Arr(elems) == [t |-> "array", s |-> <<>>, n |-> 0, items |-> elems]
Obj(entries) == [t |-> "object", s |-> <<>>, n |-> 0, items |-> entries]
Entry(key, val) == [k |-> key, v |-> val]

\* JavaScript truthiness: if (value), !value, a || b
Truthy(v) ==
  CASE v.t = "string" -> v.s # <<>>
    [] v.t = "number" -> v.n # 0
    [] v.t = "boolean" -> v.n = 1
    [] v.t \in {"array", "object"} -> TRUE
    [] OTHER -> FALSE
OrElse(a, b) == IF Truthy(a) THEN a ELSE b

HasKey(m, key) == \E i \in DOMAIN m : m[i].k = key
\* m[key]
Get(m, key) ==
  IF HasKey(m, key) THEN m[CHOOSE i \in DOMAIN m : m[i].k = key].v ELSE Undefined
\* {...a, ...b}: the keys of a keep their position and take the value of b
\* when b has the key; the other keys of b follow in b's order
Spread(a, b) ==
  [i \in DOMAIN a |-> IF HasKey(b, a[i].k) THEN Entry(a[i].k, Get(b, a[i].k)) ELSE a[i]]
    \o SelectSeq(b, LAMBDA e : ~HasKey(a, e.k))
\* Object.keys(o).forEach(k => o[k] === undefined && delete o[k])
DropUndefined(m) == SelectSeq(m, LAMBDA e : e.v.t # "undefined")

RECURSIVE NonSpaceRunEnd(_, _)
NonSpaceRunEnd(s, i) ==
  IF i < Len(s) /\ ~IsSpace(s[i + 1]) THEN NonSpaceRunEnd(s, i + 1) ELSE i
RECURSIVE MatchUrlsFrom(_, _)
MatchUrlsFrom(s, i) ==
  \* content.match(/https?:\/\/[^\s]+/g): the non-overlapping matches, left to right
  LET UrlStartsAt ==
        \/ /\ i + 7 <= Len(s)
           /\ SubSeq(s, i, i + 6) = <<"h","t","t","p",":","/","/">>
           /\ ~IsSpace(s[i + 7])
        \/ /\ i + 8 <= Len(s)
           /\ SubSeq(s, i, i + 7) = <<"h","t","t","p","s",":","/","/">>
           /\ ~IsSpace(s[i + 8])
  IN
  IF i > Len(s) THEN <<>>
  ELSE IF UrlStartsAt
    THEN LET e == NonSpaceRunEnd(s, i)
         IN <<SubSeq(s, i, e)>> \o MatchUrlsFrom(s, e + 1)
    ELSE MatchUrlsFrom(s, i + 1)

\* [...new Set(urls)]: first occurrences, in order
RECURSIVE Dedupe(_)
Dedupe(q) ==
  IF q = <<>> THEN <<>>
  ELSE LET rest == Dedupe(SubSeq(q, 1, Len(q) - 1))
       IN IF q[Len(q)] \in Range(rest) THEN rest ELSE Append(rest, q[Len(q)])

(***************************************************************************)
(* SmartTemplateProcessor: the section matcher                             *)
(***************************************************************************)
\* headingText.replace(/[^\w\s]/g, '').trim()
CleanHeading(headingText) ==
  \* \w of a JavaScript regular expression
  LET IsWordChar(c) == c \in Range(UpperLetters) \cup Range(LowerLetters) \cup Range(Digits) \cup {"_"}
  IN
  trim(SelectSeq(headingText, LAMBDA c : IsWordChar(c) \/ IsSpace(c)))
\* const normalize = (str) => str.toLowerCase().replace(/[_\s-]/g, '')
normalize(str) ==
  SelectSeq(toLowerCase(str), LAMBDA c : ~(c = "_" \/ c = "-" \/ IsSpace(c)))

\* index of the first TRUE of a sequence of test results (0 when none): the
\* position at which a for loop with an early return, or Array.find, stops
FirstIndex(hits) ==
  IF \E i \in DOMAIN hits : hits[i]
    THEN CHOOSE i \in DOMAIN hits : hits[i] /\ \A j \in 1..(i - 1) : ~hits[j]
    ELSE 0

\* The smart-aggregation rules of findMatchingDataForSectionWithTracking
\* (lines 1127-1200), each as the data it builds
keyDetailsData(extracted, original) ==
  DropUndefined(<<
    Entry(<<"d","a","t","e","s">>, OrElse(Get(original, <<"D","u","e"," ","D","a","t","e","s">>),
                   OrElse(Get(original, <<"d","a","t","e","s">>), Get(extracted, <<"d","a","t","e","s">>)))),
    Entry(<<"c","l","i","e","n","t">>, OrElse(Get(original, <<"C","l","i","e","n","t"," ","N","a","m","e">>),
                           Get(extracted, <<"c","l","i","e","n","t","_","n","a","m","e">>))),
    Entry(<<"e","m","a","i","l">>, OrElse(Get(original, <<"C","l","i","e","n","t"," ","E","m","a","i","l">>),
                          Get(original, <<"C","o","n","t","a","c","t"," ","E","m","a","i","l">>))),
    Entry(<<"c","o","m","p","a","n","y">>, OrElse(Get(original, <<"C","o","m","p","a","n","y"," ","N","a","m","e">>),
                            Get(extracted, <<"c","o","m","p","a","n","y","_","n","a","m","e">>))),
    Entry(<<"p","r","i","o","r","i","t","y">>, OrElse(Get(extracted, <<"p","r","i","o","r","i","t","y">>),
                             Get(extracted, <<"u","r","g","e","n","c","y","_","l","e","v","e","l">>))),
    Entry(<<"c","o","m","p","l","e","x","i","t","y">>, Get(extracted, <<"c","o","m","p","l","e","x","i","t","y","_","l","e","v","e","l">>)),
    Entry(<<"u","s","e","r","I","d">>, OrElse(Get(original, <<"U","s","e","r","_","N","u","m","b","e","r">>),
                           Get(original, <<"U","S","E","R"," ","I","D">>))) >>)

referenceUrls(extracted, original) ==
  LET allData == Spread(original, extracted)
  IN Flatten([i \in DOMAIN allData |->
                IF allData[i].v.t = "string" THEN MatchUrlsFrom(allData[i].v.s, 1) ELSE <<>>])

notesData(extracted, original) ==
  DropUndefined(<<
    Entry(<<"i","n","t","e","r","a","c","t","i","o","n","_","n","o","t","e","s">>, OrElse(Get(original, <<"i","n","t","e","r","a","c","t","i","o","n"," ","n","o","t","e","s">>),
                                      Get(original, <<"I","n","t","e","r","a","c","t","i","o","n"," ","N","o","t","e","s">>))),
    Entry(<<"a","d","d","i","t","i","o","n","a","l","_","c","o","n","t","e","x","t">>, OrElse(Get(original, <<"e","v","e","r","y","t","h","i","n","g","_","e","l","s","e">>),
                                       Get(original, <<"E","v","e","r","y","t","h","i","n","g","_","e","l","s","e">>))),
    Entry(<<"c","o","n","v","e","r","s","a","t","i","o","n","_","s","u","m","m","a","r","y">>, Get(extracted, <<"c","o","n","v","e","r","s","a","t","i","o","n","_","s","u","m","m","a","r","y">>)) >>)



\* const semanticMappings = {...}: concept -> keywords, in insertion order
semanticMappings == <<
  [concept |-> <<"d","e","t","a","i","l","s">>, keywords |-> <<<<"b","r","i","e","f"," ","d","e","t","a","i","l","s">>, <<"k","e","y"," ","d","e","t","a","i","l","s">>, <<"o","v","e","r","v","i","e","w">>, <<"s","u","m","m","a","r","y">>,
      <<"d","e","s","c","r","i","p","t","i","o","n">>, <<"p","r","o","j","e","c","t"," ","d","e","t","a","i","l","s">>, <<"s","c","o","p","e">>, <<"r","e","q","u","i","r","e","m","e","n","t","s">>>>],
  [concept |-> <<"p","r","o","d","u","c","t","i","o","n">>, keywords |-> <<<<"v","i","d","e","o"," ","c","o","m","p","o","n","e","n","t">>, <<"s","h","o","o","t"," ","r","e","q","u","i","r","e","m","e","n","t","s">>,
      <<"p","r","o","d","u","c","t","i","o","n"," ","l","o","g","i","s","t","i","c","s">>, <<"f","i","l","m","i","n","g">>, <<"r","e","c","o","r","d","i","n","g">>, <<"v","i","d","e","o"," ","d","e","t","a","i","l","s">>, <<"v","i","d","e","o"," ","r","e","q","u","i","r","e","m","e","n","t","s">>>>],
  [concept |-> <<"l","o","g","i","s","t","i","c","s">>, keywords |-> <<<<"p","r","o","d","u","c","t","i","o","n">>, <<"s","h","o","o","t">>, <<"v","i","d","e","o"," ","c","o","m","p","o","n","e","n","t">>, <<"d","e","l","i","v","e","r","y">>,
      <<"t","i","m","e","l","i","n","e">>, <<"s","c","h","e","d","u","l","e">>, <<"w","o","r","k","f","l","o","w">>>>],
  [concept |-> <<"b","u","d","g","e","t">>, keywords |-> <<<<"b","u","d","g","e","t"," ","a","l","l","o","c","a","t","i","o","n">>, <<"c","o","s","t">>, <<"p","r","i","c","i","n","g">>, <<"f","i","n","a","n","c","i","a","l">>,
      <<"m","o","n","e","y">>, <<"b","u","d","g","e","t"," ","c","o","n","f","l","i","c","t">>, <<"s","c","o","p","e"," ","i","s","s","u","e">>>>],
  [concept |-> <<"t","e","c","h","n","i","c","a","l">>, keywords |-> <<<<"s","p","e","c","i","f","i","c","a","t","i","o","n","s">>, <<"t","e","c","h"," ","s","p","e","c","s">>, <<"f","o","r","m","a","t">>, <<"r","e","s","o","l","u","t","i","o","n">>,
      <<"v","i","d","e","o"," ","c","o","m","p","o","n","e","n","t">>, <<"v","i","d","e","o"," ","d","e","t","a","i","l","s">>, <<"t","e","c","h","n","i","c","a","l"," ","r","e","q","u","i","r","e","m","e","n","t","s">>>>],
  [concept |-> <<"c","r","e","a","t","i","v","e">>, keywords |-> <<<<"c","r","e","a","t","i","v","e"," ","d","i","r","e","c","t","i","o","n">>, <<"v","i","s","u","a","l"," ","s","t","y","l","e">>, <<"a","e","s","t","h","e","t","i","c">>,
      <<"d","e","s","i","g","n">>, <<"b","r","a","n","d","i","n","g">>, <<"m","o","o","d">>, <<"l","o","o","k">>, <<"f","e","e","l">>>>],
  [concept |-> <<"a","p","p","r","o","v","a","l">>, keywords |-> <<<<"a","p","p","r","o","v","a","l"," ","w","o","r","k","f","l","o","w">>, <<"r","e","v","i","e","w"," ","p","r","o","c","e","s","s">>, <<"s","i","g","n","-","o","f","f">>,
      <<"t","i","m","e","l","i","n","e">>>>],
  [concept |-> <<"a","t","t","a","c","h","m","e","n","t","s">>, keywords |-> <<<<"f","i","l","e","s">>, <<"d","o","c","u","m","e","n","t","s">>, <<"a","s","s","e","t","s">>, <<"m","a","t","e","r","i","a","l","s">>,
      <<"r","e","s","o","u","r","c","e","s">>, <<"r","e","f","e","r","e","n","c","e","s">>>>],
  [concept |-> <<"n","o","t","e","s">>, keywords |-> <<<<"n","o","t","e","s">>, <<"c","o","n","s","i","d","e","r","a","t","i","o","n","s">>, <<"i","m","p","o","r","t","a","n","t">>,
      <<"a","d","d","i","t","i","o","n","a","l"," ","i","n","f","o">>, <<"s","c","o","p","e"," ","i","s","s","u","e">>, <<"c","o","n","f","l","i","c","t">>>>] >>

\* findMatchingDataForSectionWithTracking(headingText, extracted, original)
findMatchingDataForSectionWithTracking(headingText, extracted, original) ==
  \* a result {data, matchedKey}; stage names the return statement that gave it
  LET Match(d, key, stage) == [found |-> TRUE, data |-> d, matchedKey |-> key, stage |-> stage]
  IN
  \* STANDARD MATCHING (lines 1202-1225): exact, normalized exact, substring, semantic
  LET standardMatch(cleanHeading) ==
        \* semanticMatchWithKey(sectionHeading, extracted, original)
        LET semanticMatchWithKey(sectionHeading) ==
              \* A match result {data, matchedKey}; null is NoMatch
              LET NoMatch == [found |-> FALSE, data |-> Undefined, matchedKey |-> <<>>, stage |-> "none"]
              IN
              LET allData == Spread(extracted, original)
                  headingLower == toLowerCase(sectionHeading)
                  \* Check semantic mappings
                  KeyHits(mapping, e) ==
                    \E w \in DOMAIN mapping.keywords : includes(toLowerCase(e.k), mapping.keywords[w])
                  ConceptHits(mapping) ==
                    /\ includes(headingLower, mapping.concept)
                    /\ \E i \in DOMAIN allData : KeyHits(mapping, allData[i])
                  c == FirstIndex([ix \in DOMAIN semanticMappings |-> ConceptHits(semanticMappings[ix])])
                  \* String similarity matching
                  headingNorm == SelectSeq(headingLower, LAMBDA ch : ~(ch = "_" \/ ch = "-" \/ IsSpace(ch)))
                  Similar(e) ==
                    SimilarityAbove70(SelectSeq(toLowerCase(e.k),
                                                LAMBDA ch : ~(ch = "_" \/ ch = "-" \/ IsSpace(ch))),
                                      headingNorm)
                  sim == FirstIndex([ix \in DOMAIN allData |-> Similar(allData[ix])])
                  \* Word matching
                  headingWords == SelectSeq(SplitSpaces(headingLower, <<>>), LAMBDA w : Len(w) > 3)
                  matchCount(e) ==
                    Cardinality({i \in DOMAIN headingWords : includes(toLowerCase(e.k), headingWords[i])})
                  WordHit(e) == matchCount(e) >= Min(2, Len(headingWords))
                  wrd == FirstIndex([ix \in DOMAIN allData |-> WordHit(allData[ix])])
              IN IF Len(allData) = 0 THEN NoMatch
                 ELSE IF c # 0
                   THEN LET k == FirstIndex([ix \in DOMAIN allData |-> LET e == allData[ix] IN KeyHits(semanticMappings[c], e)])
                        IN Match(allData[k].v, allData[k].k, "concept")
                 ELSE IF sim # 0 THEN Match(allData[sim].v, allData[sim].k, "similarity")
                 ELSE IF wrd # 0 THEN Match(allData[wrd].v, allData[wrd].k, "words")
                 ELSE NoMatch
        IN
        LET normalizedHeading == normalize(cleanHeading)
            merged == Spread(extracted, original)
            exactN == FirstIndex([ix \in DOMAIN merged |-> LET e == merged[ix] IN normalize(e.k) = normalizedHeading])
            sub == FirstIndex([ix \in DOMAIN merged |-> LET e == merged[ix] IN
                     /\ \/ includes(normalize(e.k), normalizedHeading)
                        \/ includes(normalizedHeading, normalize(e.k))
                     /\ Len(normalize(e.k)) > 3])
        IN IF Truthy(Get(extracted, cleanHeading))
             THEN Match(Get(extracted, cleanHeading), cleanHeading, "exact")
           ELSE IF Truthy(Get(original, cleanHeading))
             THEN Match(Get(original, cleanHeading), cleanHeading, "exact")
           ELSE IF exactN # 0 THEN Match(merged[exactN].v, merged[exactN].k, "normalized")
           ELSE IF sub # 0 THEN Match(merged[sub].v, merged[sub].k, "substring")
           ELSE semanticMatchWithKey(cleanHeading)
  IN
  LET cleanHeading == CleanHeading(headingText)
      normalizedHeading == normalize(cleanHeading)
      has(p) == includes(normalizedHeading, p)
      keyDetails == keyDetailsData(extracted, original)
      urls == referenceUrls(extracted, original)
      notes == notesData(extracted, original)
      rawBrief ==
        OrElse(Get(original, <<"R","a","w"," ","B","r","i","e","f">>),
        OrElse(Get(original, <<"r","a","w","_","b","r","i","e","f">>), Get(original, <<"r","a","w","B","r","i","e","f">>)))
      briefDetails ==
        OrElse(Get(original, <<"b","r","i","e","f","_","d","e","t","a","i","l","s">>), Get(original, <<"B","r","i","e","f"," ","D","e","t","a","i","l","s">>))
  IN IF (has(<<"k","e","y","d","e","t","a","i","l","s">>) \/ has(<<"k","e","y"," ","d","e","t","a","i","l","s">>)) /\ Len(keyDetails) > 0
       THEN Match(Obj(keyDetails), <<"_","s","m","a","r","t","_","k","e","y","_","d","e","t","a","i","l","s">>, "smart")
     ELSE IF (has(<<"r","e","f","e","r","e","n","c","e">>) \/ has(<<"e","m","b","e","d">>)) /\ Len(urls) > 0
       THEN Match(Obj(<<Entry(<<"u","r","l","s">>, Arr([i \in DOMAIN Dedupe(urls) |-> Str(Dedupe(urls)[i])]))>>),
                  <<"_","s","m","a","r","t","_","r","e","f","e","r","e","n","c","e","s">>, "smart")
     ELSE IF (has(<<"n","o","t","e","s">>) \/ has(<<"c","o","n","s","i","d","e","r","a","t","i","o","n","s">>) \/ has(<<"c","o","n","t","e","x","t">>)) /\ Len(notes) > 0
       THEN Match(Obj(notes), <<"_","s","m","a","r","t","_","n","o","t","e","s">>, "smart")
     ELSE IF (has(<<"r","a","w","b","r","i","e","f">>) \/ has(<<"r","a","w"," ","b","r","i","e","f">>)) /\ Truthy(rawBrief)
       THEN Match(rawBrief, <<"R","a","w"," ","B","r","i","e","f">>, "smart")
     ELSE IF (has(<<"b","r","i","e","f","d","e","t","a","i","l","s">>) \/ has(<<"b","r","i","e","f"," ","d","e","t","a","i","l","s">>) \/ has(<<"d","e","t","a","i","l","s">>)) /\ Truthy(briefDetails)
       THEN Match(briefDetails, <<"b","r","i","e","f","_","d","e","t","a","i","l","s">>, "smart")
     ELSE standardMatch(cleanHeading)

smartRuleFields(rule, extracted, original) ==
  \* the fields a smart-aggregation rule, named by the key it returns as
  \* matchedKey, reads its data from (lines 1127-1200):
  \* of each a || b || c chain the operand that supplies the value, and for
  \* the references rule every string field that holds a URL.  A chain is a
  \* sequence of [bag, key]
  LET ChainSource(chain) ==
        LET hit == FirstIndex([ix \in DOMAIN chain |-> LET c == chain[ix] IN Truthy(Get(c.bag, c.key))])
        IN IF hit # 0 THEN {chain[hit].key}
           ELSE IF Get(chain[Len(chain)].bag, chain[Len(chain)].key).t # "undefined"
             THEN {chain[Len(chain)].key}
           ELSE {}
  IN
  LET E(key) == [bag |-> extracted, key |-> key]
      O(key) == [bag |-> original, key |-> key]
      allData == Spread(original, extracted)
  IN CASE rule = <<"_","s","m","a","r","t","_","k","e","y","_","d","e","t","a","i","l","s">> ->
            ChainSource(<<O(<<"D","u","e"," ","D","a","t","e","s">>), O(<<"d","a","t","e","s">>), E(<<"d","a","t","e","s">>)>>)
              \cup ChainSource(<<O(<<"C","l","i","e","n","t"," ","N","a","m","e">>), E(<<"c","l","i","e","n","t","_","n","a","m","e">>)>>)
              \cup ChainSource(<<O(<<"C","l","i","e","n","t"," ","E","m","a","i","l">>), O(<<"C","o","n","t","a","c","t"," ","E","m","a","i","l">>)>>)
              \cup ChainSource(<<O(<<"C","o","m","p","a","n","y"," ","N","a","m","e">>), E(<<"c","o","m","p","a","n","y","_","n","a","m","e">>)>>)
              \cup ChainSource(<<E(<<"p","r","i","o","r","i","t","y">>), E(<<"u","r","g","e","n","c","y","_","l","e","v","e","l">>)>>)
              \cup ChainSource(<<E(<<"c","o","m","p","l","e","x","i","t","y","_","l","e","v","e","l">>)>>)
              \cup ChainSource(<<O(<<"U","s","e","r","_","N","u","m","b","e","r">>), O(<<"U","S","E","R"," ","I","D">>)>>)
       [] rule = <<"_","s","m","a","r","t","_","r","e","f","e","r","e","n","c","e","s">> ->
            {allData[i].k : i \in {j \in DOMAIN allData :
                                     /\ allData[j].v.t = "string"
                                     /\ Len(MatchUrlsFrom(allData[j].v.s, 1)) > 0}}
       [] rule = <<"_","s","m","a","r","t","_","n","o","t","e","s">> ->
            ChainSource(<<O(<<"i","n","t","e","r","a","c","t","i","o","n"," ","n","o","t","e","s">>), O(<<"I","n","t","e","r","a","c","t","i","o","n"," ","N","o","t","e","s">>)>>)
              \cup ChainSource(<<O(<<"e","v","e","r","y","t","h","i","n","g","_","e","l","s","e">>), O(<<"E","v","e","r","y","t","h","i","n","g","_","e","l","s","e">>)>>)
              \cup ChainSource(<<E(<<"c","o","n","v","e","r","s","a","t","i","o","n","_","s","u","m","m","a","r","y">>)>>)
       [] rule = <<"R","a","w"," ","B","r","i","e","f">> ->
            ChainSource(<<O(<<"R","a","w"," ","B","r","i","e","f">>), O(<<"r","a","w","_","b","r","i","e","f">>), O(<<"r","a","w","B","r","i","e","f">>)>>)
       [] rule = <<"b","r","i","e","f","_","d","e","t","a","i","l","s">> ->
            ChainSource(<<O(<<"b","r","i","e","f","_","d","e","t","a","i","l","s">>), O(<<"B","r","i","e","f"," ","D","e","t","a","i","l","s">>)>>)
       [] OTHER -> {}

(***************************************************************************)
(* TemplateApplier: conditional sections                                    *)
(***************************************************************************)
isConditional(text) ==
  \* isConditional(text): the text carries one of the conditional markers
  LET conditionalPatterns == {
        <<"(","i","f"," ","a","p","p","l","i","c","a","b","l","e",")">>, <<"(","i","f"," ","e","x","i","s","t","s",")">>, <<"(","o","p","t","i","o","n","a","l",")">>, <<"(","i","f"," ","a","v","a","i","l","a","b","l","e",")">>, <<"(","i","f"," ","p","r","o","v","i","d","e","d",")">>,
        <<"(","c","o","n","d","i","t","i","o","n","a","l",")">> }
  IN \E pattern \in conditionalPatterns : includes(toLowerCase(text), pattern)

(***************************************************************************)
(* SmartTemplateProcessor: text helpers of the content block generator     *)
(***************************************************************************)
\* A rich-text run {type: 'text', text: {content}, annotations: {bold, italic}};
\* for a template block, content is the run's plain_text
Run(chars, isBold, isItalic) == [content |-> chars, bold |-> isBold, italic |-> isItalic]
PlainRun(chars) == Run(chars, FALSE, FALSE)

\* A block.  url is the url of an embed, image or bookmark block; rich is
\* FALSE for a block whose payload has no rich_text (divider, image, ...)
Block(type, runs) ==
  [type |-> type, rich |-> TRUE, rich_text |-> runs, url |-> <<>>, children |-> <<>>,
   icon |-> <<>>, color |-> ""]
UrlBlock(type, u) ==
  [type |-> type, rich |-> FALSE, rich_text |-> <<>>, url |-> u, children |-> <<>>,
   icon |-> <<>>, color |-> ""]
DividerBlock ==
  [type |-> "divider", rich |-> FALSE, rich_text |-> <<>>, url |-> <<>>, children |-> <<>>,
   icon |-> <<>>, color |-> ""]
ToggleBlock(runs, kids) ==
  [type |-> "toggle", rich |-> TRUE, rich_text |-> runs, url |-> <<>>, children |-> kids,
   icon |-> <<>>, color |-> ""]
CalloutBlock(runs, emoji, col) ==
  [type |-> "callout", rich |-> TRUE, rich_text |-> runs, url |-> <<>>, children |-> <<>>,
   icon |-> emoji, color |-> col]

RECURSIVE ReplaceBrFrom(_, _)
ReplaceBrFrom(s, i) ==
  \* data.replace(/<br\s*\/?>/gi, '\n')
  LET BrTagEnd ==
        \* index of the closing ">" of a <br> tag that starts at i, or 0
        IF i + 2 <= Len(s) /\ s[i] = "<" /\ ToLowerChar(s[i + 1]) = "b" /\ ToLowerChar(s[i + 2]) = "r"
          THEN LET afterSpaces == i + 2 + (Len(SubSeq(s, i + 3, Len(s)))
                                            - Len(TrimLeft(SubSeq(s, i + 3, Len(s))))) + 1
                   afterSlash == IF afterSpaces <= Len(s) /\ s[afterSpaces] = "/"
                                   THEN afterSpaces + 1 ELSE afterSpaces
               IN IF afterSlash <= Len(s) /\ s[afterSlash] = ">" THEN afterSlash ELSE 0
          ELSE 0
  IN
  IF i > Len(s) THEN <<>>
  ELSE IF BrTagEnd # 0 THEN <<"\n">> \o ReplaceBrFrom(s, BrTagEnd + 1)
  ELSE <<s[i]>> \o ReplaceBrFrom(s, i + 1)

\* cleanedData.replace(/<\/?[^>]+(>|$)/g, ''): "<", at least one character
\* other than ">", then ">" or the end of the string
RECURSIVE RemoveTagsFrom(_, _)
RemoveTagsFrom(s, i) ==
  IF i > Len(s) THEN <<>>
  ELSE IF s[i] = "<" /\ i < Len(s) /\ s[i + 1] # ">"
    THEN LET close == IndexOfFrom(s, <<">">>, i + 1)
         IN IF close = 0 THEN <<>> ELSE RemoveTagsFrom(s, close + 1)
  ELSE <<s[i]>> \o RemoveTagsFrom(s, i + 1)

RECURSIVE BulletLines(_, _)
BulletLines(lines, currentParagraph) ==
  \* parseMarkdownBullets(text): items {type: 'bullet' | 'paragraph', content}
  LET Item(type, chars) == [type |-> type, content |-> chars]
  IN
  IF lines = <<>>
    THEN IF Len(currentParagraph) > 0
           THEN <<Item("paragraph", trim(Join(currentParagraph, <<" ">>)))>> ELSE <<>>
  ELSE LET trimmed == trim(Head(lines))
           flush == IF Len(currentParagraph) > 0
                      THEN <<Item("paragraph", trim(Join(currentParagraph, <<" ">>)))>> ELSE <<>>
       IN IF startsWith(trimmed, <<"*">>) \/ startsWith(trimmed, <<"-">>)
            THEN LET bulletContent == trim(TrimLeft(Tail(trimmed)))
                 IN flush
                    \o (IF Len(bulletContent) > 0 THEN <<Item("bullet", bulletContent)>> ELSE <<>>)
                    \o BulletLines(Tail(lines), <<>>)
          ELSE IF Len(trimmed) > 0
            THEN BulletLines(Tail(lines), Append(currentParagraph, trimmed))
          ELSE flush \o BulletLines(Tail(lines), <<>>)
RECURSIVE SplitBold(_, _, _)
SplitBold(s, i, cur) ==
  \* text.split(/(\*\*[^*]+\*\*)/g): the parts between the bold passages and the
  \* bold passages themselves, in order (empty parts included)
  LET BoldEnd ==
        \* index of the last "*" of a **bold** passage that starts at i, or 0
        IF i + 1 <= Len(s) /\ s[i] = "*" /\ s[i + 1] = "*"
          THEN LET star == IndexOfFrom(s, <<"*">>, i + 2)
               IN IF star > i + 2 /\ star + 1 <= Len(s) /\ s[star + 1] = "*" THEN star + 1 ELSE 0
          ELSE 0
  IN
  IF i > Len(s) THEN <<cur>>
  ELSE IF BoldEnd # 0
    THEN <<cur, SubSeq(s, i, BoldEnd)>> \o SplitBold(s, BoldEnd + 1, <<>>)
  ELSE SplitBold(s, i + 1, Append(cur, s[i]))

IsImageUrl(url) ==
  \* /\.(jpg|jpeg|png|gif|webp|svg)(\?|$)/i.test(url)
  LET imageExtensions == <<<<".","j","p","g">>, <<".","j","p","e","g">>, <<".","p","n","g">>, <<".","g","i","f">>, <<".","w","e","b","p">>, <<".","s","v","g">>>>
  IN
  \E e \in DOMAIN imageExtensions :
    \/ LET s == toLowerCase(url)
           p == imageExtensions[e]
       IN Len(p) <= Len(s) /\ SubSeq(s, Len(s) - Len(p) + 1, Len(s)) = p
    \/ includes(toLowerCase(url), imageExtensions[e] \o <<"?">>)
IsVideoUrl(url) ==
  \* /youtube\.com|youtu\.be|vimeo\.com|loom\.com/i.test(url)
  LET videoHosts == <<<<"y","o","u","t","u","b","e",".","c","o","m">>, <<"y","o","u","t","u",".","b","e">>, <<"v","i","m","e","o",".","c","o","m">>, <<"l","o","o","m",".","c","o","m">>>>
  IN \E h \in DOMAIN videoHosts : includes(toLowerCase(url), videoHosts[h])
\* content.split(/\n\n+/)
RECURSIVE DropNewlines(_)
DropNewlines(s) == IF s # <<>> /\ Head(s) = "\n" THEN DropNewlines(Tail(s)) ELSE s
RECURSIVE SplitParagraphs(_, _)
SplitParagraphs(s, cur) ==
  IF s = <<>> THEN <<cur>>
  ELSE IF startsWith(s, <<"\n", "\n">>) THEN <<cur>> \o SplitParagraphs(DropNewlines(s), <<>>)
  ELSE SplitParagraphs(Tail(s), Append(cur, Head(s)))

\* chunk.match(/[^.!?]+[.!?]+/g): the sentences, each with its terminators
RECURSIVE RunEnd(_, _, _)
RunEnd(s, i, terminators) ==
  \* last index of the maximal run, starting at i, of characters that are
  \* (terminators = TRUE) or are not (FALSE) sentence terminators; i - 1 when empty
  IF i <= Len(s) /\ (s[i] \in {".", "!", "?"}) = terminators THEN RunEnd(s, i + 1, terminators) ELSE i - 1
RECURSIVE MatchSentences(_, _)
MatchSentences(s, i) ==
  IF i > Len(s) THEN <<>>
  ELSE IF s[i] \in {".", "!", "?"} THEN MatchSentences(s, i + 1)
  ELSE LET textEnd == RunEnd(s, i, FALSE)
           termEnd == RunEnd(s, textEnd + 1, TRUE)
       IN IF termEnd > textEnd
            THEN <<SubSeq(s, i, termEnd)>> \o MatchSentences(s, termEnd + 1)
            ELSE <<>>

\* the two accumulation loops of intelligentSplit: pieces are appended to the
\* current chunk (joined by sep) until the limit would be exceeded
RECURSIVE Accumulate(_, _, _, _, _)
Accumulate(pieces, current, sep, extra, maxChars) ==
  IF pieces = <<>>
    THEN IF trim(current) # <<>> THEN <<trim(current)>> ELSE <<>>
  ELSE IF Len(current) + Len(Head(pieces)) + extra > maxChars /\ Len(current) > 0
    THEN <<trim(current)>> \o Accumulate(Tail(pieces), Head(pieces), sep, extra, maxChars)
  ELSE Accumulate(Tail(pieces),
                  current \o (IF current # <<>> THEN sep ELSE <<>>) \o Head(pieces),
                  sep, extra, maxChars)

(***************************************************************************)
(* SmartTemplateProcessor: the content block generator                     *)
(***************************************************************************)
maxCharsPerBlock == 1900
maxToggleChildren == 100

\* String(value) for a string, number or boolean
ToStringJS(v) ==
  CASE v.t = "string" -> v.s
    [] v.t = "number" -> NumberToString(v.n)
    [] v.t = "boolean" -> IF v.n = 1 THEN <<"t","r","u","e">> ELSE <<"f","a","l","s","e">>
    [] v.t = "null" -> <<"n","u","l","l">>
    [] OTHER -> <<"u","n","d","e","f","i","n","e","d">>

\* value.join(', '): null and undefined elements give '', a nested array is
\* joined with ',', an object gives '[object Object]'
RECURSIVE JoinArray(_, _)
JoinArray(elems, sep) ==
  LET ElemString(v) ==
        CASE v.t \in {"null", "undefined"} -> <<>>
          [] v.t = "array" -> JoinArray(v.items, <<",">>)
          [] v.t = "object" -> <<"[","o","b","j","e","c","t"," ","O","b","j","e","c","t","]">>
          [] OTHER -> ToStringJS(v)
  IN Join([i \in DOMAIN elems |-> ElemString(elems[i])], sep)

\* formatObjectAsParagraph(obj)
RECURSIVE formatObjectAsParagraph(_)
formatObjectAsParagraph(entries) ==
  LET Part(e) ==
        IF e.v.t \in {"string", "number", "boolean"}
          THEN <<e.k \o <<":", " ">> \o ToStringJS(e.v)>>
        ELSE IF e.v.t = "array"
          THEN <<e.k \o <<":", " ", "[">> \o JoinArray(e.v.items, <<",", " ">>) \o <<"]">>>>
        ELSE IF e.v.t = "object"
          THEN <<e.k \o <<":", " ", "{">> \o formatObjectAsParagraph(e.v.items) \o <<"}">>>>
        ELSE <<>>
  IN Join(Flatten([i \in DOMAIN entries |-> Part(entries[i])]), <<" ", "|", " ">>)

\* organizeContentWithLLM(data, sectionHeading): null (<<>> here with ok = FALSE)
\* unless data is an object with at least 3 fields and the response parses
\* into a non-empty array.  response = [ok, blocks]: ok is FALSE when the call
\* throws or the text is not JSON
NoOrganization == [ok |-> FALSE, blocks |-> <<>>]
organizeContentWithLLM(data, response) ==
  IF data.t # "object" THEN NoOrganization
  ELSE IF Len(data.items) < 3 THEN NoOrganization
  ELSE IF ~response.ok \/ Len(response.blocks) = 0 THEN NoOrganization
  ELSE response

\* convertOrganizedToNotionBlocks(organizedBlocks); a descriptor of any other
\* type adds nothing
convertOrganizedToNotionBlocks(organizedBlocks) ==
  \* s.replace(p, '') with a string pattern: the first occurrence is removed
  LET RemoveFirst(s, p) ==
        IF p = <<>> \/ IndexOfFrom(s, p, 1) = 0 THEN s
        ELSE SubSeq(s, 1, IndexOfFrom(s, p, 1) - 1)
               \o SubSeq(s, IndexOfFrom(s, p, 1) + Len(p), Len(s))
  IN
  LET Content(d) == IF d.content.t = "string" THEN d.content.s ELSE <<"u","n","d","e","f","i","n","e","d">>
      Convert(d) ==
        CASE d.type \in {"heading_2", "heading_3"} -> <<Block(d.type, <<PlainRun(Content(d))>>)>>
          [] d.type = "paragraph" ->
               IF d.bold_prefix # <<>>
                 THEN <<Block("paragraph",
                          <<Run(d.bold_prefix \o <<" ">>, TRUE, FALSE),
                            PlainRun(trim(RemoveFirst(Content(d), d.bold_prefix)))>>)>>
                 ELSE <<Block("paragraph", <<PlainRun(Content(d))>>)>>
          [] d.type = "bulleted_list" ->
               IF d.items.t = "array"
                 THEN [i \in DOMAIN d.items.items |->
                         Block("bulleted_list_item",
                               <<PlainRun(IF d.items.items[i].t \in {"array", "object"}
                                            THEN JoinArray(<<d.items.items[i]>>, <<>>)
                                            ELSE ToStringJS(d.items.items[i]))>>)]
                 ELSE <<>>
          [] d.type = "divider" -> <<DividerBlock>>
          [] OTHER -> <<>>
  IN Flatten([i \in DOMAIN organizedBlocks |-> Convert(organizedBlocks[i])])

\* SPECIAL HANDLING: References section with URLs (lines 2032-2085)
IsReferenceHeading(sectionHeading) ==
  \/ includes(toLowerCase(sectionHeading), <<"r","e","f","e","r","e","n","c","e">>)
  \/ includes(toLowerCase(sectionHeading), <<"e","m","b","e","d">>)
referenceUrlItems(data) ==
  IF data.t = "object" /\ Get(data.items, <<"u","r","l","s">>).t = "array"
    THEN Get(data.items, <<"u","r","l","s">>).items ELSE <<>>
referenceBlocks(data) ==
  LET urls == referenceUrlItems(data)
      UrlOf(v) == IF v.t = "string" THEN v.s ELSE ToStringJS(v)
      RefBlock(url) ==
        IF IsVideoUrl(url) THEN UrlBlock("embed", trim(url))
        ELSE IF IsImageUrl(url) THEN UrlBlock("image", trim(url))
        ELSE UrlBlock("bookmark", trim(url))
  IN [i \in DOMAIN urls |-> RefBlock(UrlOf(urls[i]))]

\* if (depth >= 2): flatten to paragraph to avoid the store's nesting limit (line 2287)
AtNestingLimitOneLater(depth) == depth >= 3
AtNestingLimit(depth) == depth >= 2

\* the string branch of generateContentBlocksForSection (lines 2107-2177)
\* intelligentSplit(content, maxChars) (lines 1506-1554)
intelligentSplit(content, maxChars) ==
  LET chunks == Accumulate(SplitParagraphs(content, <<>>), <<>>, <<"\n", "\n">>, 2, maxChars)
      BySentence(chunk) ==
        IF Len(chunk) <= maxChars THEN <<chunk>>
        ELSE LET found == MatchSentences(chunk, 1)
                 sentences == IF found = <<>> THEN <<chunk>> ELSE found
             IN Accumulate(sentences, <<>>, <<>>, 0, maxChars)
      finalChunks == Flatten([i \in DOMAIN chunks |-> BySentence(chunks[i])])
  IN IF Len(finalChunks) > 0 THEN finalChunks
     ELSE <<SubSeq(content, 1, Min(maxChars, Len(content)))>>

stringBlocks(data, isRawBrief) ==
  \* extractAndCreateMediaBlocks(content)
  LET extractAndCreateMediaBlocks(content) ==
        LET IsDriveUrl(url) ==
              \* /drive\.google\.com|docs\.google\.com|sheets\.google\.com|slides\.google\.com/i.test(url)
              LET driveHosts == <<<<"d","r","i","v","e",".","g","o","o","g","l","e",".","c","o","m">>, <<"d","o","c","s",".","g","o","o","g","l","e",".","c","o","m">>, <<"s","h","e","e","t","s",".","g","o","o","g","l","e",".","c","o","m">>, <<"s","l","i","d","e","s",".","g","o","o","g","l","e",".","c","o","m">>>>
              IN \E h \in DOMAIN driveHosts : includes(toLowerCase(url), driveHosts[h])
        IN
        LET urls == MatchUrlsFrom(content, 1)
            MediaBlock(url) ==
              IF IsImageUrl(url) THEN UrlBlock("image", trim(url))
              ELSE IF IsVideoUrl(url) THEN UrlBlock("embed", trim(url))
              ELSE IF IsDriveUrl(url) THEN UrlBlock("bookmark", trim(url))
              ELSE Block("paragraph", <<PlainRun(<<"@", " ">>), PlainRun(url)>>)
        IN [i \in DOMAIN urls |-> MediaBlock(urls[i])]
  IN
  \* parseMarkdownToRichText(text, forceItalic)
  LET parseMarkdownToRichText(text, forceItalic) ==
        LET parts == SelectSeq(SplitBold(text, 1, <<>>), LAMBDA p : p # <<>>)
            RunOf(part) ==
              IF startsWith(part, <<"*","*">>) /\ (Len(part) >= 2 /\ SubSeq(part, Len(part) - 1, Len(part)) = <<"*","*">>)
                THEN Run(SubSeq(part, 3, Len(part) - 2), TRUE, forceItalic)
                ELSE Run(part, FALSE, forceItalic)
            richText == [i \in DOMAIN parts |-> RunOf(parts[i])]
        IN IF Len(richText) = 0 THEN <<Run(text, FALSE, forceItalic)>> ELSE richText
  IN
  LET parseMarkdownBullets(text) == BulletLines(SplitChar(text, "\n", <<>>), <<>>)
  IN
  LET cleanedData == RemoveTagsFrom(ReplaceBrFrom(data, 1), 1)
      mediaBlocks == extractAndCreateMediaBlocks(cleanedData)
      hasMarkdownBullets ==
        \/ includes(cleanedData, <<"\n", "*">>) \/ includes(cleanedData, <<"\n", "-">>)
        \/ startsWith(cleanedData, <<"*">>) \/ startsWith(cleanedData, <<"-">>)
      parsedItems == parseMarkdownBullets(cleanedData)
      chunks == IF Len(cleanedData) <= maxCharsPerBlock THEN <<cleanedData>>
                ELSE intelligentSplit(cleanedData, maxCharsPerBlock)
  IN (IF hasMarkdownBullets
        THEN [i \in DOMAIN parsedItems |->
                Block(IF parsedItems[i].type = "bullet" THEN "bulleted_list_item" ELSE "paragraph",
                      parseMarkdownToRichText(parsedItems[i].content, isRawBrief))]
        ELSE [i \in DOMAIN chunks |->
                Block("paragraph", parseMarkdownToRichText(chunks[i], isRawBrief))])
     \o mediaBlocks

addConfidenceMarker(text, dataItem) ==
  \* addConfidenceMarker(text, dataItem)
  LET confidenceMarkers == <<
        [confidence |-> <<"i","m","p","l","i","e","d","_","s","t","a","n","d","a","r","d">>, marker |-> <<"*","(","i","n","d","u","s","t","r","y"," ","s","t","a","n","d","a","r","d"," ","-"," ","c","o","n","f","i","r","m"," ","i","f"," ","n","e","e","d","e","d",")","*">>],
        [confidence |-> <<"i","n","f","e","r","r","e","d">>, marker |-> <<"*","(","i","n","f","e","r","r","e","d"," ","f","r","o","m"," ","c","o","n","t","e","x","t"," ","-"," ","p","l","e","a","s","e"," ","v","e","r","i","f","y",")","*">>],
        [confidence |-> <<"e","s","t","i","m","a","t","e","d">>, marker |-> <<"*","(","e","s","t","i","m","a","t","e","d"," ","-"," ","c","o","n","f","i","r","m"," ","w","i","t","h"," ","c","l","i","e","n","t",")","*">>],
        [confidence |-> <<"s","u","g","g","e","s","t","e","d">>, marker |-> <<"*","(","s","u","g","g","e","s","t","e","d"," ","d","e","f","a","u","l","t"," ","-"," ","a","d","j","u","s","t"," ","a","s"," ","n","e","e","d","e","d",")","*">>] >>
  IN
  IF dataItem.t = "object" /\ Truthy(Get(dataItem.items, <<"c","o","n","f","i","d","e","n","c","e">>))
    THEN LET conf == Get(dataItem.items, <<"c","o","n","f","i","d","e","n","c","e">>)
             known == FirstIndex([ix \in DOMAIN confidenceMarkers |-> LET m == confidenceMarkers[ix] IN conf.t = "string" /\ m.confidence = conf.s])
             marker == IF known # 0 THEN confidenceMarkers[known].marker ELSE <<"*","(","p","l","e","a","s","e"," ","c","o","n","f","i","r","m",")","*">>
             shown == IF Truthy(Get(dataItem.items, <<"v","a","l","u","e">>))
                        THEN ToStringJS(Get(dataItem.items, <<"v","a","l","u","e">>)) ELSE text
         IN shown \o <<" ">> \o marker
    ELSE text

\* one list item per element of an array (lines 2181-2207 and 2251-2277)
arrayItemBlocks(elems) ==
  LET ItemBlock(item) ==
        IF item.t \in {"string", "number"}
          THEN <<Block("bulleted_list_item", <<PlainRun(ToStringJS(item))>>)>>
        ELSE IF item.t \in {"object", "array"}
          THEN <<Block("bulleted_list_item",
                       <<PlainRun(formatObjectAsParagraph(
                           IF item.t = "object" THEN item.items
                           ELSE [j \in DOMAIN item.items |->
                                   Entry(NumberToString(j - 1), item.items[j])]))>>)>>
        ELSE <<>>
  IN Flatten([i \in DOMAIN elems |-> ItemBlock(elems[i])])

\* generateContentBlocksForSection(data, sectionInstructions, sectionHeading, depth);
\* response is the answer of the reasoning service to the organization call
RECURSIVE generateContentBlocksForSection(_, _, _, _)
generateContentBlocksForSection(data, sectionHeading, depth, response) ==
  LET refs == IF IsReferenceHeading(sectionHeading) THEN referenceBlocks(data) ELSE <<>>
      organized == IF depth = 0 THEN organizeContentWithLLM(data, response) ELSE NoOrganization
      notionBlocks == IF organized.ok THEN convertOrganizedToNotionBlocks(organized.blocks)
                      ELSE <<>>
      isRawBrief == \/ includes(toLowerCase(sectionHeading), <<"r","a","w"," ","b","r","i","e","f">>)
                    \/ includes(toLowerCase(sectionHeading), <<"r","a","w","b","r","i","e","f">>)
      FieldBlocks(e) ==
        IF e.v.t \in {"string", "number", "boolean"}
          THEN <<Block("paragraph",
                       <<Run(e.k \o <<":", " ">>, TRUE, FALSE),
                         PlainRun(addConfidenceMarker(ToStringJS(e.v), e.v))>>)>>
        ELSE IF e.v.t = "array"
          THEN <<Block("paragraph", <<Run(e.k \o <<":">>, TRUE, FALSE)>>)>>
                 \o arrayItemBlocks(e.v.items)
        ELSE IF e.v.t = "object"
          THEN IF Len(e.v.items) = 0 THEN <<>>
               ELSE IF AtNestingLimit(depth)
                 THEN <<Block("paragraph",
                              <<Run(e.k \o <<":", " ">>, TRUE, FALSE),
                                PlainRun(formatObjectAsParagraph(e.v.items))>>)>>
               ELSE LET nestedBlocks ==
                          generateContentBlocksForSection(e.v, sectionHeading, depth + 1, response)
                    IN IF Len(nestedBlocks) = 0 THEN <<>>
                       ELSE <<ToggleBlock(<<Run(e.k, TRUE, FALSE)>>,
                                SubSeq(nestedBlocks, 1, Min(maxToggleChildren, Len(nestedBlocks))))>>
                            \o SubSeq(nestedBlocks, maxToggleChildren + 1, Len(nestedBlocks))
        ELSE <<>>
  IN IF Len(refs) > 0 THEN refs
     ELSE IF Len(notionBlocks) > 0 THEN notionBlocks
     ELSE IF data.t = "string" THEN stringBlocks(data.s, isRawBrief)
     ELSE IF data.t = "array" THEN arrayItemBlocks(data.items)
     ELSE IF data.t = "object"
       THEN Flatten([i \in DOMAIN data.items |-> FieldBlocks(data.items[i])])
     ELSE <<>>

\* the organization call is made for this value (depth 0)
callsOrganizer(data, sectionHeading) ==
  /\ ~(IsReferenceHeading(sectionHeading) /\ Len(referenceBlocks(data)) > 0)
  /\ data.t = "object"
  /\ Len(data.items) >= 3

\* url.substring(0, 50) throws a TypeError for an element of data.urls that is
\* not a string, at any depth the generator reaches
RECURSIVE referenceThrows(_, _, _)
referenceThrows(data, sectionHeading, depth) ==
  IF IsReferenceHeading(sectionHeading) /\ Len(referenceUrlItems(data)) > 0
    THEN \E i \in DOMAIN referenceUrlItems(data) : referenceUrlItems(data)[i].t # "string"
  ELSE /\ data.t = "object"
       /\ depth < 2
       /\ \E i \in DOMAIN data.items :
            /\ data.items[i].v.t = "object"
            /\ referenceThrows(data.items[i].v, sectionHeading, depth + 1)

\* generateContentBlocksForSection throws (depth 0): in the References
\* handling, or in the converter of the organized layout
generateThrows(data, sectionHeading, response) ==
  \* block.content.replace(..) throws a TypeError when a paragraph descriptor
  \* with a bold_prefix has no string content
  LET convertOrganizedThrows(organizedBlocks) ==
        \E i \in DOMAIN organizedBlocks :
          /\ organizedBlocks[i].type = "paragraph"
          /\ organizedBlocks[i].bold_prefix # <<>>
          /\ organizedBlocks[i].content.t # "string"
  IN
  IF IsReferenceHeading(sectionHeading) /\ Len(referenceUrlItems(data)) > 0
    THEN referenceThrows(data, sectionHeading, 0)
  ELSE IF callsOrganizer(data, sectionHeading) /\ organizeContentWithLLM(data, response).ok
    THEN \/ convertOrganizedThrows(response.blocks)
         \/ /\ Len(convertOrganizedToNotionBlocks(response.blocks)) = 0
            /\ referenceThrows(data, sectionHeading, 0)
  ELSE referenceThrows(data, sectionHeading, 0)

(***************************************************************************)
(* SmartTemplateProcessor: the assembler                                    *)
(***************************************************************************)
humanizeKey(key) ==
  \* humanizeKey(key)
  LET specialMappings == <<
        [key |-> <<"v","i","d","e","o","_","c","o","m","p","o","n","e","n","t">>, header |-> <<"@"," ","V","i","d","e","o"," ","C","o","m","p","o","n","e","n","t">>],
        [key |-> <<"u","s","e","r","_","i","d">>, header |-> <<"U","s","e","r"," ","I","D">>],
        [key |-> <<"U","S","E","R"," ","I","D">>, header |-> <<"U","s","e","r"," ","I","D">>],
        [key |-> <<"p","r","o","j","e","c","t","_","n","a","m","e">>, header |-> <<"P","r","o","j","e","c","t"," ","N","a","m","e">>],
        [key |-> <<"r","a","w","_","b","r","i","e","f">>, header |-> <<"R","a","w"," ","B","r","i","e","f">>],
        [key |-> <<"b","u","d","g","e","t","_","c","o","n","f","l","i","c","t">>, header |-> <<"@"," ","B","u","d","g","e","t"," ","&"," ","S","c","o","p","e"," ","N","o","t","e","s">>],
        [key |-> <<"s","c","o","p","e","_","i","s","s","u","e">>, header |-> <<"@"," ","S","c","o","p","e"," ","C","o","n","s","i","d","e","r","a","t","i","o","n","s">>],
        [key |-> <<"p","l","a","t","f","o","r","m","s">>, header |-> <<"@"," ","P","l","a","t","f","o","r","m","s">>],
        [key |-> <<"c","o","n","t","a","c","t">>, header |-> <<"@"," ","C","o","n","t","a","c","t"," ","I","n","f","o","r","m","a","t","i","o","n">>],
        [key |-> <<"v","i","d","e","o","_","d","e","t","a","i","l","s">>, header |-> <<"@"," ","V","i","d","e","o"," ","R","e","q","u","i","r","e","m","e","n","t","s">>],
        [key |-> <<"v","i","d","e","o","_","r","e","q","u","i","r","e","m","e","n","t","s">>, header |-> <<"@"," ","V","i","d","e","o"," ","R","e","q","u","i","r","e","m","e","n","t","s">>],
        [key |-> <<"a","u","d","i","o","_","r","e","q","u","i","r","e","m","e","n","t","s">>, header |-> <<"@"," ","A","u","d","i","o"," ","R","e","q","u","i","r","e","m","e","n","t","s">>],
        [key |-> <<"c","r","e","a","t","i","v","e","_","d","i","r","e","c","t","i","o","n">>, header |-> <<"@"," ","C","r","e","a","t","i","v","e"," ","D","i","r","e","c","t","i","o","n">>],
        [key |-> <<"t","e","c","h","n","i","c","a","l","_","s","p","e","c","s">>, header |-> <<"@"," ","T","e","c","h","n","i","c","a","l"," ","S","p","e","c","i","f","i","c","a","t","i","o","n","s">>],
        [key |-> <<"d","e","l","i","v","e","r","a","b","l","e","s">>, header |-> <<"@"," ","D","e","l","i","v","e","r","a","b","l","e","s">>],
        [key |-> <<"t","i","m","e","l","i","n","e">>, header |-> <<"@"," ","T","i","m","e","l","i","n","e">>],
        [key |-> <<"b","u","d","g","e","t">>, header |-> <<"@"," ","B","u","d","g","e","t">>] >>
  IN
  \* .replace(/([A-Z])/g, ' $1'): a space before every upper-case letter
  LET SpaceBeforeUpper(s) ==
        Flatten([i \in DOMAIN s |-> IF s[i] \in Range(UpperLetters) THEN <<" ", s[i]>> ELSE <<s[i]>>])
  IN
  LET special == FirstIndex([ix \in DOMAIN specialMappings |-> LET m == specialMappings[ix] IN m.key = toLowerCase(key)])
      spaced == SpaceBeforeUpper([i \in DOMAIN key |-> IF key[i] = "_" THEN " " ELSE key[i]])
      words == SelectSeq(SplitChar(spaced, " ", <<>>), LAMBDA w : Len(w) > 0)
      Capitalize(w) == <<ToUpperChar(w[1])>> \o toLowerCase(Tail(w))
  IN IF special # 0 THEN specialMappings[special].header
     ELSE Join([i \in DOMAIN words |-> Capitalize(words[i])], <<" ">>)

\* const systemFields = [...] (lines 897-943)
systemFields == {
  <<"u","r","g","e","n","c","y","_","d","e","t","e","c","t","e","d">>, <<"u","r","g","e","n","c","y","_","s","u","m","m","a","r","y">>, <<"u","r","g","e","n","c","y","_","s","c","o","r","e">>, <<"u","r","g","e","n","c","y","_","l","e","v","e","l">>, <<"u","r","g","e","n","c","y">>,
  <<"c","o","n","f","l","i","c","t","s">>,
  <<"c","o","m","p","l","e","t","e","n","e","s","s","A","s","s","e","s","s","m","e","n","t">>, <<"s","o","f","t","F","l","a","g","s">>, <<"c","r","i","t","i","c","a","l","M","i","s","s","i","n","g">>, <<"n","o","r","m","a","l","T","B","D","s">>,
  <<"c","o","m","p","l","e","x","i","t","y","A","p","p","r","o","p","r","i","a","t","e">>, <<"c","o","m","p","l","e","t","e">>,
  <<"n","o","v","e","l","S","e","c","t","i","o","n","s">>,
  <<"i","n","t","e","n","t","_","r","a","t","i","n","g">>, <<"c","o","n","f","i","d","e","n","c","e">>, <<"s","e","m","a","n","t","i","c","_","s","c","o","r","e">>,
  <<"e","d","i","t","i","n","g","_","s","t","y","l","e">>, <<"q","u","a","l","i","t","y","_","l","e","v","e","l">>,
  <<"c","o","m","p","l","e","x","i","t","y"," ","l","e","v","e","l">>, <<"c","o","m","p","l","e","x","i","t","y","L","e","v","e","l">>, <<"c","o","m","p","l","e","x","i","t","y","_","l","e","v","e","l">>,
  <<"u","s","e","r","_","b","r","a","i","n","_","d","u","m","p">>,
  <<"R","a","w"," ","B","r","i","e","f">>, <<"r","a","w","_","b","r","i","e","f">>, <<"r","a","w","B","r","i","e","f">>,
  <<"P","r","o","j","e","c","t"," ","N","a","m","e">>, <<"p","r","o","j","e","c","t","_","n","a","m","e">>, <<"p","r","o","j","e","c","t","N","a","m","e">>,
  <<"C","l","i","e","n","t"," ","N","a","m","e">>, <<"c","l","i","e","n","t","_","n","a","m","e">>, <<"c","l","i","e","n","t","N","a","m","e">>,
  <<"C","o","m","p","a","n","y"," ","N","a","m","e">>, <<"c","o","m","p","a","n","y","_","n","a","m","e">>, <<"c","o","m","p","a","n","y","N","a","m","e">>,
  <<"U","S","E","R"," ","I","D">>, <<"u","s","e","r","_","i","d">>, <<"u","s","e","r","I","d">>, <<"U","s","e","r","_","N","u","m","b","e","r">>, <<"U","s","e","r"," ","N","u","m","b","e","r">>,
  <<"C","o","n","t","a","c","t"," ","E","m","a","i","l">>, <<"c","o","n","t","a","c","t","_","e","m","a","i","l">>, <<"c","o","n","t","a","c","t","E","m","a","i","l">>, <<"C","l","i","e","n","t"," ","E","m","a","i","l">>,
  <<"C","a","t","e","g","o","r","y">>, <<"c","a","t","e","g","o","r","y">>,
  <<"A","s","s","e","t"," ","T","y","p","e">>, <<"a","s","s","e","t","_","t","y","p","e">>, <<"a","s","s","e","t","T","y","p","e">>,
  <<"D","e","s","i","r","e","d"," ","D","a","t","e">>, <<"d","e","s","i","r","e","d","_","d","a","t","e">>, <<"D","u","e"," ","D","a","t","e","s">>, <<"d","u","e","_","d","a","t","e">>, <<"d","u","e","D","a","t","e">>,
  <<"i","n","t","e","r","a","c","t","i","o","n"," ","n","o","t","e","s">>, <<"i","n","t","e","r","a","c","t","i","o","n","N","o","t","e","s">>, <<"i","n","t","e","r","a","c","t","i","o","n","_","n","o","t","e","s">>,
  <<"R","e","q","u","e","s","t","e","d"," ","P","r","i","o","r","i","t","y">>, <<"r","e","q","u","e","s","t","e","d","_","p","r","i","o","r","i","t","y">>,
  <<"F","r","e","e","l","a","n","c","e","r"," ","N","e","e","d","e","d","?">>, <<"f","r","e","e","l","a","n","c","e","r","_","n","e","e","d","e","d">>,
  <<"F","r","e","e","l","a","n","c","e","r"," ","A","l","l","o","c","a","t","e","d">>, <<"f","r","e","e","l","a","n","c","e","r","_","a","l","l","o","c","a","t","e","d">>,
  <<"A","c","c","e","p","t"," ","B","r","i","e","f","?">>, <<"a","c","c","e","p","t","_","b","r","i","e","f">>,
  <<"M","e","d","i","a"," ","L","i","n","k">>, <<"m","e","d","i","a","_","l","i","n","k">>,
  <<"b","r","i","e","f","_","d","e","t","a","i","l","s">>, <<"b","r","i","e","f","D","e","t","a","i","l","s">> }

\* extractTextFromBlock(block)
extractTextFromBlock(block) ==
  IF ~block.rich THEN <<>>
  ELSE Flatten([i \in DOMAIN block.rich_text |-> block.rich_text[i].content])

\* blockType.includes('heading')
IsHeadingType(type) == type \in {"heading_1", "heading_2", "heading_3"}

\* cleanOriginalData: the brief without brief_details / briefDetails
cleanOriginalDataOf(brief) ==
  \* delete m[key]
  LET Delete(m, key) == SelectSeq(m, LAMBDA e : e.k # key)
  IN Delete(Delete(brief, <<"b","r","i","e","f","_","d","e","t","a","i","l","s">>), <<"b","r","i","e","f","D","e","t","a","i","l","s">>)


\* An element of finalBlocks: the block and where it came from.
\*   origin "template"    the template block at position tpl, copied
\*          "generated"   generated for the section whose heading is at position tpl
\*          "additional"  part of the Additional Information section; field is
\*                        the key of the leftover field it belongs to
\*          "callout"     an urgency or conflict callout
Out(block, origin, tpl, field) ==
  [block |-> block, origin |-> origin, tpl |-> tpl, field |-> field]

\* currentSection: null (set = FALSE) or {heading, skip, data, headingBlock};
\* headingBlock is kept as the position of the block in the template
NoSection ==
  [set |-> FALSE, heading |-> <<>>, skip |-> FALSE, data |-> Null, headingBlock |-> 0]
\* sectionInstructions: null (set = FALSE) or {toggleText, instructions, section}
NoInstructions ==
  [set |-> FALSE, toggleText |-> <<>>, instructions |-> <<>>, section |-> Undefined]
\* if (currentSection && currentSection.data): a section with data is open.
\* HasDataNever is the guard of the regular-block branch with the test dropped.
HasDataNever(section) == FALSE
HasData(section) == section.set /\ Truthy(section.data)

\* if (!skipCurrentSection && currentSection && currentSection.data)
FlushNeededNever == FALSE
FlushNeeded == ~skipCurrentSection /\ HasData(currentSection)

\* the answers of the reasoning service to an organization call: the call
\* throws or returns no JSON array; a well-formed layout; a layout of an
\* unknown block type only; a paragraph with a bold_prefix and no content; a
\* layout of an unknown block type and a paragraph
OrganizerResponses ==
  \* A block descriptor of the section-organization response:
  \* {type, content, bold_prefix, items}; content is Str(..) or Undefined,
  \* bold_prefix is <<>> when absent, items is Arr(..) or Undefined
  LET Descriptor(type, cont, prefix, list) ==
        [type |-> type, content |-> cont, bold_prefix |-> prefix, items |-> list]
  IN {
  NoOrganization,
  [ok |-> TRUE, blocks |-> <<
     Descriptor("heading_2", Str(<<"@"," ","P","r","o","d","u","c","t","i","o","n"," ","D","e","t","a","i","l","s">>), <<>>, Undefined),
     Descriptor("paragraph", Str(<<"B","u","d","g","e","t",":"," ","5","0","0","0">>), <<"B","u","d","g","e","t",":">>, Undefined),
     Descriptor("bulleted_list", Undefined, <<>>, Arr(<<Str(<<"r","e","e","l">>), Num(2)>>)),
     Descriptor("divider", Undefined, <<>>, Undefined) >>],
  [ok |-> TRUE, blocks |-> <<Descriptor("table", Str(<<"a">>), <<>>, Undefined)>>],
  [ok |-> TRUE, blocks |-> <<Descriptor("paragraph", Undefined, <<"B","u","d","g","e","t",":">>, Undefined)>>],
  [ok |-> TRUE, blocks |-> <<
     Descriptor("table", Str(<<"a">>), <<>>, Undefined),
     Descriptor("paragraph", Str(<<"5","0","0","0"," ","G","B","P">>), <<>>, Undefined) >>] }

\* the content generated for the open section (lines 765-780, 835-852, 881-888)
FlushBlocks(response) ==
  IF FlushNeeded
    THEN LET Push(contentBlocks) ==
               [i \in DOMAIN contentBlocks |->
                  Out(contentBlocks[i], "generated", currentSection.headingBlock, <<>>)]
         IN Push(generateContentBlocksForSection(
                   currentSection.data, currentSection.heading, 0, response))
    ELSE <<>>
FlushResponses ==
  \* the answers that can arrive for generateContentBlocksForSection(data, .., heading)
  LET ResponsesFor(data, heading) ==
        IF callsOrganizer(data, heading) THEN OrganizerResponses ELSE {NoOrganization}
  IN
  IF FlushNeeded THEN ResponsesFor(currentSection.data, currentSection.heading)
  ELSE {NoOrganization}

\* an exception leaves processTemplateWithContentGeneration
AsmThrow ==
  /\ apc' = "threw"
  /\ UNCHANGED <<finalBlocks, currentSection, sectionInstructions, skipCurrentSection,
                 matchedDataFields>>

\* HEADING = new section starts (lines 763-813)
StepHeading(block, response) ==
  LET Section(heading, skip, data, headingBlock) ==
        [set |-> TRUE, heading |-> heading, skip |-> skip, data |-> data,
         headingBlock |-> headingBlock]
      \* lines 783-812: the new section, given the output after the flush and
      \* the result of the matcher
      Open(flushed, headingText, matchResult) ==
        /\ apc' = "walk"
        /\ IF ~matchResult.found \/ ~Truthy(matchResult.data)
             THEN /\ skipCurrentSection' = TRUE
                  /\ currentSection' = Section(headingText, TRUE, Null, 0)
                  /\ finalBlocks' = flushed
                  /\ UNCHANGED <<sectionInstructions, matchedDataFields>>
             ELSE /\ matchedDataFields' =
                       IF matchResult.matchedKey # <<>>
                         THEN matchedDataFields \cup {matchResult.matchedKey}
                         ELSE matchedDataFields
                  /\ skipCurrentSection' = FALSE
                  /\ currentSection' = Section(headingText, FALSE, matchResult.data,
                                               Len(templateBlocks) + 1)
                  /\ sectionInstructions' = NoInstructions
                  /\ finalBlocks' = Append(flushed,
                                      Out(block, "template", Len(templateBlocks) + 1, <<>>))
  IN
  /\ apc = "walk"
  /\ Len(templateBlocks) < MaxTemplateLen
  /\ IsHeadingType(block.type)
  /\ templateBlocks' = Append(templateBlocks, block)
  /\ IF FlushNeeded /\ generateThrows(currentSection.data, currentSection.heading, response)
       THEN AsmThrow
     ELSE Open(finalBlocks \o FlushBlocks(response),
               extractTextFromBlock(block),
               findMatchingDataForSectionWithTracking(
                 extractTextFromBlock(block), extractedData,
                 cleanOriginalDataOf(originalBriefData)))
  /\ UNCHANGED <<extractedData, originalBriefData>>
  /\ UNCHANGED <<queueVars, reqVars, engVars, cacheVars, resVars, pureVars>>

\* TOGGLE = section-specific instructions, never added to the output (lines
\* 816-831); instructions is what readToggleInstructions returns ('' when the
\* store call fails)
StepToggle(block, instructions) ==
  LET Instructions(toggleText, text, section) ==
        [set |-> TRUE, toggleText |-> toggleText, instructions |-> text,
         section |-> section]
  IN
  /\ apc = "walk"
  /\ Len(templateBlocks) < MaxTemplateLen
  /\ block.type = "toggle"
  /\ templateBlocks' = Append(templateBlocks, block)
  /\ IF skipCurrentSection THEN UNCHANGED sectionInstructions
     ELSE sectionInstructions' =
            Instructions(extractTextFromBlock(block), instructions,
                         IF currentSection.set THEN Str(currentSection.heading)
                         ELSE Undefined)
  /\ UNCHANGED <<apc, extractedData, originalBriefData, finalBlocks, currentSection,
                 skipCurrentSection, matchedDataFields>>
  /\ UNCHANGED <<queueVars, reqVars, engVars, cacheVars, resVars, pureVars>>

\* DIVIDER = section boundary (lines 834-863)
StepDivider(block, response) ==
  /\ apc = "walk"
  /\ Len(templateBlocks) < MaxTemplateLen
  /\ block.type = "divider"
  /\ templateBlocks' = Append(templateBlocks, block)
  /\ IF FlushNeeded /\ generateThrows(currentSection.data, currentSection.heading, response)
       THEN AsmThrow
     ELSE /\ apc' = "walk"
          /\ finalBlocks' =
               (finalBlocks \o FlushBlocks(response))
                 \o (IF ~skipCurrentSection
                       THEN <<Out(block, "template", Len(templateBlocks) + 1, <<>>)>>
                       ELSE <<>>)
          /\ currentSection' = NoSection
          /\ sectionInstructions' = NoInstructions
          /\ skipCurrentSection' = FALSE
          /\ UNCHANGED matchedDataFields
  /\ UNCHANGED <<extractedData, originalBriefData>>
  /\ UNCHANGED <<queueVars, reqVars, engVars, cacheVars, resVars, pureVars>>

\* REGULAR CONTENT BLOCK (lines 865-877)
StepOther(block) ==
  \* blockHasContent(block)
  LET blockHasContent ==
        IF ~block.rich THEN block.type = "divider"
        ELSE Len(trim(extractTextFromBlock(block))) > 0
  IN
  /\ apc = "walk"
  /\ Len(templateBlocks) < MaxTemplateLen
  /\ ~IsHeadingType(block.type)
  /\ block.type \notin {"toggle", "divider"}
  /\ templateBlocks' = Append(templateBlocks, block)
  /\ IF skipCurrentSection THEN UNCHANGED finalBlocks
     ELSE IF HasData(currentSection) THEN UNCHANGED finalBlocks
     ELSE IF blockHasContent
       THEN finalBlocks' = Append(finalBlocks,
                                  Out(block, "template", Len(templateBlocks) + 1, <<>>))
     ELSE UNCHANGED finalBlocks
  /\ UNCHANGED <<apc, extractedData, originalBriefData, currentSection,
                 sectionInstructions, skipCurrentSection, matchedDataFields>>
  /\ UNCHANGED <<queueVars, reqVars, engVars, cacheVars, resVars, pureVars>>

\* the loop of lines 945-949
unmatchedFields ==
  \* const allDataFields = {...extractedData, ...cleanOriginalData}
  LET allDataFields == Spread(extractedData, cleanOriginalDataOf(originalBriefData))
  IN
  SelectSeq(allDataFields, LAMBDA e :
    /\ e.k \notin matchedDataFields
    /\ e.k \notin systemFields
    /\ Truthy(e.v))

\* the calls of generateContentBlocksForSection after the loop that reach the
\* reasoning service: 0 is the last section, i the i-th unmatched field
OrganizerSites ==
  {i \in {0} : FlushNeeded /\ callsOrganizer(currentSection.data, currentSection.heading)}
    \cup {i \in DOMAIN unmatchedFields :
            callsOrganizer(unmatchedFields[i].v, humanizeKey(unmatchedFields[i].k))}
\* answers gives the answer at each site of OrganizerSites
ResponsesAt(answers) ==
  [i \in 0..Len(unmatchedFields) |->
     IF i \in DOMAIN answers THEN answers[i] ELSE NoOrganization]

\* finalBlocks.unshift(b) for each b of callouts in turn (lines 1029, 1055, 1082)
UnshiftAsPush(blocks, callouts) == blocks \o callouts
Unshift(blocks, callouts) ==
  [i \in DOMAIN callouts |-> callouts[Len(callouts) + 1 - i]] \o blocks

\* After the loop (lines 880-1108): the last section, the Additional
\* Information section, the urgency callout and the conflict callouts.
\* rs[0] answers the organization call of the last section.
Finalize(rs) ==
  \* x.prop for a value x: undefined unless x is an object that has the property
  LET Prop(x, key) == IF x.t = "object" THEN Get(x.items, key) ELSE Undefined
  IN
  LET conflictList ==
        LET conflicts == Get(extractedData, <<"c","o","n","f","l","i","c","t","s">>)
        IN IF conflicts.t = "array" THEN conflicts.items ELSE <<>>
      IsNaturalLanguageConflict(conflict) ==
        /\ Truthy(Prop(conflict, <<"e","m","o","j","i">>))
        /\ Truthy(Prop(conflict, <<"t","i","t","l","e">>))
        /\ Truthy(Prop(conflict, <<"m","e","s","s","a","g","e">>))
      \* `${value}`
      TemplateString(v) ==
        IF v.t \in {"array", "object"} THEN JoinArray(<<v>>, <<>>) ELSE ToStringJS(v)
      urgencyCallout ==
        \* the urgency callout (lines 1012-1044); icons are written as short codes
        LET urgencyConfig == <<
              [level |-> <<"C","R","I","T","I","C","A","L">>, emoji |-> <<":","r","o","t","a","t","i","n","g","_","l","i","g","h","t",":">>, color |-> "red_background",
               prefix |-> <<"C","R","I","T","I","C","A","L"," ","D","E","A","D","L","I","N","E">>],
              [level |-> <<"H","I","G","H">>, emoji |-> <<":","w","a","r","n","i","n","g",":">>, color |-> "orange_background",
               prefix |-> <<"U","R","G","E","N","T"," ","D","E","A","D","L","I","N","E">>],
              [level |-> <<"M","E","D","I","U","M">>, emoji |-> <<":","a","l","a","r","m","_","c","l","o","c","k",":">>, color |-> "yellow_background",
               prefix |-> <<"T","I","M","E","-","S","E","N","S","I","T","I","V","E">>] >>
        IN
        LET urgencyData == OrElse(Get(extractedData, <<"u","r","g","e","n","c","y">>), Obj(extractedData))
            urgencyDetected == OrElse(Prop(urgencyData, <<"u","r","g","e","n","c","y","_","d","e","t","e","c","t","e","d">>),
                                      Get(extractedData, <<"u","r","g","e","n","c","y","_","d","e","t","e","c","t","e","d">>))
            urgencyLevel == OrElse(OrElse(Prop(urgencyData, <<"u","r","g","e","n","c","y","_","l","e","v","e","l">>),
                                          Get(extractedData, <<"u","r","g","e","n","c","y","_","l","e","v","e","l">>)), Str(<<"H","I","G","H">>))
            urgencyMessage == OrElse(OrElse(Prop(urgencyData, <<"u","r","g","e","n","c","y","_","s","u","m","m","a","r","y">>),
                                            Get(extractedData, <<"u","r","g","e","n","c","y","_","s","u","m","m","a","r","y">>)),
                                     Str(<<"T","h","i","s"," ","r","e","q","u","e","s","t"," ","r","e","q","u","i","r","e","s"," ","i","m","m","e","d","i","a","t","e"," ","a","t","t","e","n","t","i","o","n">>))
            known == FirstIndex([ix \in DOMAIN urgencyConfig |-> LET c == urgencyConfig[ix] IN urgencyLevel.t = "string" /\ c.level = urgencyLevel.s])
            config == IF known # 0 THEN urgencyConfig[known] ELSE urgencyConfig[2]
        IN IF Truthy(urgencyDetected)
             THEN <<Out(CalloutBlock(
                          <<PlainRun(<<"*","*">> \o config.prefix \o <<":","*","*"," ">> \o TemplateString(urgencyMessage))>>,
                          config.emoji, config.color),
                        "callout", 0, <<>>)>>
             ELSE <<>>
      \* the "Additional Information" section (lines 952-1008); rs[i] is the answer
      \* to the organization call for the i-th unmatched field
      additionalThrows ==
        \E i \in DOMAIN unmatchedFields :
          generateThrows(unmatchedFields[i].v, humanizeKey(unmatchedFields[i].k), rs[i])
      additionalBlocks ==
        LET FieldSection(key, humanHeader, value, response) ==
              LET Tagged(fieldBlocks) ==
                    <<Out(Block("heading_3", <<Run(humanHeader, TRUE, FALSE)>>),
                          "additional", 0, key)>>
                      \o [j \in DOMAIN fieldBlocks |-> Out(fieldBlocks[j], "additional", 0, key)]
              IN Tagged(generateContentBlocksForSection(value, humanHeader, 0, response))
            Sections(fields) ==
              IF Len(fields) = 0 THEN <<>>
              ELSE <<Out(DividerBlock, "additional", 0, <<>>),
                     Out(Block("heading_2", <<Run(<<"@"," ","A","d","d","i","t","i","o","n","a","l"," ","I","n","f","o","r","m","a","t","i","o","n">>, TRUE, FALSE)>>),
                         "additional", 0, <<>>)>>
                     \o Flatten([i \in DOMAIN fields |->
                                   FieldSection(fields[i].k, humanizeKey(fields[i].k), fields[i].v, rs[i])])
        IN Sections(unmatchedFields)
      \* conflict.emoji of null or undefined, and conflict.type.toUpperCase() of a
      \* type that is not a string, throw a TypeError
      conflictThrows ==
        \E i \in DOMAIN conflictList :
          \/ conflictList[i].t \in {"null", "undefined"}
          \/ /\ ~IsNaturalLanguageConflict(conflictList[i])
             /\ Prop(conflictList[i], <<"t","y","p","e">>).t # "string"
      conflictCallouts ==
        LET toUpperCase(s) == [i \in DOMAIN s |-> ToUpperChar(s[i])]
        IN
        \* the conflict callouts (lines 1048-1102), in the order of extractedData.conflicts
        LET severityConfig == <<
              [severity |-> <<"h","i","g","h">>, emoji |-> <<":","w","a","r","n","i","n","g",":">>, color |-> "red_background"],
              [severity |-> <<"m","e","d","i","u","m">>, emoji |-> <<":","w","a","r","n","i","n","g",":">>, color |-> "orange_background"],
              [severity |-> <<"l","o","w">>, emoji |-> <<":","b","u","l","b",":">>, color |-> "yellow_background"] >>
        IN
        LET Callout(conflict) ==
              IF IsNaturalLanguageConflict(conflict)
                THEN CalloutBlock(
                       <<PlainRun(<<"*","*">> \o TemplateString(Prop(conflict, <<"t","i","t","l","e">>)) \o <<"*","*">>
                                  \o <<"\n", "\n">> \o TemplateString(Prop(conflict, <<"m","e","s","s","a","g","e">>)))>>,
                       TemplateString(Prop(conflict, <<"e","m","o","j","i">>)), "orange_background")
                ELSE LET sev == Prop(conflict, <<"s","e","v","e","r","i","t","y">>)
                         known == FirstIndex([ix \in DOMAIN severityConfig |-> LET c == severityConfig[ix] IN sev.t = "string" /\ c.severity = sev.s])
                         config == IF known # 0 THEN severityConfig[known] ELSE severityConfig[2]
                         type == toUpperCase(Prop(conflict, <<"t","y","p","e">>).s)
                         label == [k \in DOMAIN type |-> IF type[k] = "_" THEN " " ELSE type[k]]
                                  \o <<":"," ">> \o TemplateString(Prop(conflict, <<"d","e","s","c","r","i","p","t","i","o","n">>))
                         calloutText ==
                           IF Truthy(Prop(conflict, <<"r","e","c","o","m","m","e","n","d","a","t","i","o","n">>))
                             THEN label \o <<"\n", "\n">> \o <<"@"," ">>
                                    \o TemplateString(Prop(conflict, <<"r","e","c","o","m","m","e","n","d","a","t","i","o","n">>))
                             ELSE label
                     IN CalloutBlock(<<Run(calloutText, TRUE, FALSE)>>, config.emoji, config.color)
        IN [i \in DOMAIN conflictList |-> Out(Callout(conflictList[i]), "callout", 0, <<>>)]
  IN
  /\ apc = "walk"
  /\ IF (FlushNeeded /\ generateThrows(currentSection.data, currentSection.heading, rs[0]))
        \/ additionalThrows \/ conflictThrows THEN AsmThrow
     ELSE /\ apc' = "done"
          /\ finalBlocks' =
               Unshift(Unshift(finalBlocks \o FlushBlocks(rs[0]) \o additionalBlocks,
                               urgencyCallout),
                       conflictCallouts)
          /\ UNCHANGED <<currentSection, sectionInstructions, skipCurrentSection,
                         matchedDataFields>>
  /\ UNCHANGED <<templateBlocks, extractedData, originalBriefData>>
  /\ UNCHANGED <<queueVars, reqVars, engVars, cacheVars, resVars, pureVars>>

(***************************************************************************)
(* SmartTemplateProcessor: structured extraction                           *)
(***************************************************************************)
\* { ...spreadOf, k: v, .. } (lines 726-730): an object literal is a new object
\* that holds the entries of spreadOf and the entries given; isArgument tells
\* whether the object returned is the spreadOf object itself.  ObjectAssign is
\* Object.assign(target, entries), which writes the entries into target.
ObjectAssign(target, entries) == [data |-> Spread(target, entries), isArgument |-> TRUE]
ObjectLiteral(spreadOf, entries) == [data |-> Spread(spreadOf, entries), isArgument |-> FALSE]

\* JSON.stringify(value); no string of the model holds a character that
\* JSON escapes
RECURSIVE JSONstringify(_)
JSONstringify(v) ==
  LET Members(items, Text(_)) ==
        Join([i \in DOMAIN items |-> Text(items[i])], <<",">>)
      Element(e) == IF e.t = "undefined" THEN <<"n","u","l","l">> ELSE JSONstringify(e)
      Property(e) == <<"\"">> \o e.k \o <<"\"",":">> \o JSONstringify(e.v)
  IN
  CASE v.t = "string" -> <<"\"">> \o v.s \o <<"\"">>
    [] v.t = "array" -> <<"[">> \o Members(v.items, Element) \o <<"]">>
    [] v.t = "object" ->
         <<"{">> \o Members(SelectSeq(v.items, LAMBDA e : e.v.t # "undefined"), Property) \o <<"}">>
    [] OTHER -> ToStringJS(v)

\* JSON.parse(text) for the texts the reasoning service answers with: an object
\* whose values are strings, booleans or null, no string holding a comma, a
\* colon or a quote, no key twice.  Any other text is a SyntaxError (ok = FALSE).
JSONparse(text) ==
  LET body == trim(text)
      inner == trim(SubSeq(body, 2, Len(body) - 1))
      commas == SelectSeq([i \in DOMAIN inner |-> i], LAMBDA i : inner[i] = ",")
      cuts == <<0>> \o commas \o <<Len(inner) + 1>>
      members ==
        IF inner = <<>> THEN <<>>
        ELSE [k \in 1..(Len(commas) + 1) |-> SubSeq(inner, cuts[k] + 1, cuts[k + 1] - 1)]
      Quoted(s) ==
        /\ Len(s) >= 2
        /\ s[1] = "\""
        /\ s[Len(s)] = "\""
        /\ \A i \in 2..(Len(s) - 1) : s[i] # "\""
      Unquote(s) == SubSeq(s, 2, Len(s) - 1)
      Colon(m) == IndexOfFrom(m, <<":">>, 1)
      KeyOf(m) == trim(SubSeq(m, 1, Colon(m) - 1))
      ValueOf(m) == trim(SubSeq(m, Colon(m) + 1, Len(m)))
      IsValue(s) == Quoted(s) \/ s \in {<<"t","r","u","e">>, <<"f","a","l","s","e">>, <<"n","u","l","l">>}
      Value(s) ==
        IF Quoted(s) THEN Str(Unquote(s))
        ELSE IF s = <<"n","u","l","l">> THEN Null
        ELSE Bool(s = <<"t","r","u","e">>)
      wellFormed ==
        /\ Len(body) >= 2
        /\ body[1] = "{"
        /\ body[Len(body)] = "}"
        /\ \A i \in DOMAIN members :
             /\ Colon(members[i]) > 0
             /\ Quoted(KeyOf(members[i]))
             /\ IsValue(ValueOf(members[i]))
  IN
  IF wellFormed
    THEN [ok |-> TRUE,
          value |-> [i \in DOMAIN members |->
                       Entry(Unquote(KeyOf(members[i])), Value(ValueOf(members[i])))]]
  ELSE [ok |-> FALSE, value |-> <<>>]

\* extractStructuredData (lines 654-726).  response is the answer of the
\* reasoning service: kind "error" when the call throws or carries no content,
\* kind "text" with the content otherwise.  parsed tells which branch returned;
\* no answer of the model carries a brief_details field (lines 683-704).  The
\* fence character is written "backtick".
extractStructuredData(briefData, response) ==
  LET RECURSIVE RemoveFence(_, _)
      \* s.replace(/<fence>\n?/g, "")
      RemoveFence(s, fence) ==
        LET at == IndexOfFrom(s, fence, 1)
            rest == SubSeq(s, at + Len(fence), Len(s))
        IN IF at = 0 THEN s
           ELSE SubSeq(s, 1, at - 1)
                  \o RemoveFence(IF rest # <<>> /\ Head(rest) = "\n" THEN Tail(rest) ELSE rest,
                                 fence)
      trimmed == trim(response.text)
      responseText ==
        IF includes(trimmed, <<"backtick","backtick","backtick","j","s","o","n">>)
          THEN RemoveFence(RemoveFence(trimmed, <<"backtick","backtick","backtick","j","s","o","n">>), <<"backtick","backtick","backtick">>)
        ELSE trimmed
      extracted == JSONparse(responseText)
      cleanedData ==
        SelectSeq(extracted.value, LAMBDA e :
          e.v.t \notin {"null", "undefined"} /\ e.v # Str(<<>>))
      \* simpleUrgencyCheck (lines 731-736)
      simpleUrgencyCheck ==
        LET urgentKeywords == {<<"u","r","g","e","n","t">>, <<"a","s","a","p">>, <<"2","4","-","h","o","u","r">>, <<"r","u","s","h">>, <<"e","m","e","r","g","e","n","c","y">>,
                               <<"j","a","m","i","e"," ","n","e","e","d","s">>, <<"i","d","r","i","s"," ","a","s","k","i","n","g">>}
            dataString == toLowerCase(JSONstringify(Obj(briefData)))
        IN \E keyword \in urgentKeywords : includes(dataString, keyword)
      dueDate == OrElse(Get(briefData, <<"D","u","e"," ","D","a","t","e","s">>),
                        OrElse(Get(briefData, <<"D","u","e"," ","D","a","t","e">>), Get(briefData, <<"D","e","a","d","l","i","n","e">>)))
      \* s.replace(p, "")
      WithoutFirst(s, p) ==
        LET at == IndexOfFrom(s, p, 1)
        IN IF at = 0 THEN s ELSE SubSeq(s, 1, at - 1) \o SubSeq(s, at + Len(p), Len(s))
      urgencySummary ==
        IF Truthy(dueDate) /\ dueDate.t = "string"
          THEN Str(<<"D","e","a","d","l","i","n","e",":"," ">> \o trim(WithoutFirst(dueDate.s, <<"P","U","B","L","I","S","H"," ","B","Y",":">>)))
        ELSE Null
  IN
  \* cleanedData is a new object (const cleanedData = {}, line 676)
  IF response.kind = "text" /\ extracted.ok
    THEN [parsed |-> TRUE, data |-> cleanedData, isArgument |-> FALSE]
  ELSE [parsed |-> FALSE] @@
       ObjectLiteral(briefData,
                     <<Entry(<<"u","r","g","e","n","c","y","_","d","e","t","e","c","t","e","d">>, Bool(simpleUrgencyCheck)),
                       Entry(<<"u","r","g","e","n","c","y","_","s","u","m","m","a","r","y">>, urgencySummary)>>)

\* processTemplate is not running
EngIdle ==
  /\ epc = "idle"
  /\ isLLMOnly = FALSE
  /\ extraction = [kind |-> "none", text |-> <<>>]
  /\ urgencyEvaluation = "none"

\* no template is cached and fetchTemplate has not been called
FetcherIdle ==
  /\ cache = {}
  /\ clearedSince = {}
  /\ lastFetch = [databaseId |-> <<>>, complexityLevel |-> <<>>, source |-> "none",
                  afterClear |-> FALSE]

\* no function has been applied
PureIdle ==
  /\ analysisConflicts = [returned |-> FALSE, conflicts |-> <<>>]
  /\ parsedFrom = <<>>
  /\ parsedTemplate = [returned |-> FALSE, sections |-> <<>>]
  /\ splitContent = <<>>
  /\ splitMaxChars = 0
  /\ splitChunks = [returned |-> FALSE, finalChunks |-> <<>>]
  /\ sectionMatch = [returned |-> FALSE]

\* getValueFromBrief has not been called
ResolverIdle ==
  /\ varName = <<>>
  /\ resolved = <<>>

\* the assembler is not running
AsmIdle ==
  /\ apc = "idle"
  /\ templateBlocks = <<>>
  /\ extractedData = <<>>
  /\ originalBriefData = <<>>
  /\ finalBlocks = <<>>
  /\ currentSection = NoSection
  /\ sectionInstructions = NoInstructions
  /\ skipCurrentSection = FALSE
  /\ matchedDataFields = {}

(***************************************************************************)
(* server.js: job queue                                                    *)
(***************************************************************************)
MAX_CONCURRENT == 3

\* processNextIfAvailable, first guard: if (currentlyProcessing >= MAX_CONCURRENT) return
SlotsFullOffByOne(cp) == cp > MAX_CONCURRENT
SlotsFullOneEarly(cp) == cp >= MAX_CONCURRENT - 1
SlotsFull(cp) == cp >= MAX_CONCURRENT

\* processNextIfAvailable as a function of (queue, cp, states, order):
\* the new values after the call.  ProcessNextPop takes the request with
\* requestQueue.pop() where the code has requestQueue.shift().
ProcessNextPop(q, cp, st, ord) ==
  IF SlotsFull(cp) THEN [q |-> q, cp |-> cp, st |-> st, ord |-> ord]
  ELSE IF Len(q) = 0 THEN [q |-> q, cp |-> cp, st |-> st, ord |-> ord]
  ELSE [q   |-> SubSeq(q, 1, Len(q) - 1),
        cp  |-> cp + 1,
        st  |-> [st EXCEPT ![q[Len(q)]] = "running"],
        ord |-> Append(ord, q[Len(q)])]
ProcessNextIfAvailable(q, cp, st, ord) ==
  IF SlotsFull(cp) THEN [q |-> q, cp |-> cp, st |-> st, ord |-> ord]
  ELSE IF Len(q) = 0 THEN [q |-> q, cp |-> cp, st |-> st, ord |-> ord]
  ELSE [q   |-> Tail(q),
        cp  |-> cp + 1,
        st  |-> [st EXCEPT ![Head(q)] = "running"],
        ord |-> Append(ord, Head(q))]

\* POST /create-request: validation, 202 response, enqueueRequest(req.body)
CreateRequest(r, hasData) ==
  /\ reqState[r] = "new"
  /\ IF ~hasData
       THEN /\ reqState' = [reqState EXCEPT ![r] = "rejected400"]
            /\ UNCHANGED <<requestQueue, currentlyProcessing, startOrder, acceptOrder>>
       ELSE LET pushed == Append(requestQueue, r)
                st1 == [reqState EXCEPT ![r] = "queued"]
                n == ProcessNextIfAvailable(pushed, currentlyProcessing, st1, startOrder)
            IN /\ requestQueue' = n.q
               /\ currentlyProcessing' = n.cp
               /\ reqState' = n.st
               /\ startOrder' = n.ord
               /\ acceptOrder' = Append(acceptOrder, r)
  /\ UNCHANGED <<reqVars, asmVars, engVars, cacheVars, resVars, pureVars>>

\* processRequestAsync(payload) settles, after a successful run or after a run
\* that ended in its failure path; .catch logs a rejection; .finally frees the
\* slot and calls processNextIfAvailable
RequestSettled(r, failed) ==
  /\ reqState[r] = "running"
  /\ LET st1 == [reqState EXCEPT ![r] = IF failed THEN "finishedFailed" ELSE "finishedOk"]
         n == ProcessNextIfAvailable(requestQueue, currentlyProcessing - 1, st1, startOrder)
     IN /\ requestQueue' = n.q
        /\ currentlyProcessing' = n.cp
        /\ reqState' = n.st
        /\ startOrder' = n.ord
  /\ UNCHANGED acceptOrder
  /\ UNCHANGED <<reqVars, asmVars, engVars, cacheVars, resVars, pureVars>>

(***************************************************************************)
(* server.js: processRequestAsync(originalPayload)                         *)
(***************************************************************************)
maxRetries == 2
BATCH_SIZE == 100

\* const { requestType, briefData } = payload, after Step 0
HasField(shape, field) ==
  IF field = "requestType"
    THEN shape \in {"arrayBody", "body", "root", "typed", "bodyTyped"}
    ELSE shape \in {"arrayBody", "body", "root", "typed", "briefOnly"}

\* throw inside the outer try: control moves to the catch block at line 539
Throw(msg) ==
  /\ rpc' = "catch"
  /\ errorCaught' = msg
  /\ UNCHANGED responseSent

\* `return res.status(..).json(..)` and `res.json(..)`
ViaRes(resp, next) ==
  \* processRequestAsync(originalPayload) has no parameter or enclosing binding
  \* named res: evaluating res.status(..) or res.json(..) throws a ReferenceError
  LET ResInScope == FALSE
  IN
  IF ResInScope
    THEN /\ responseSent' = resp
         /\ rpc' = next
         /\ UNCHANGED errorCaught
    ELSE Throw("res is not defined")

\* Step 0 and Step 1: normalize the payload and validate it
Normalize ==
  /\ rpc = "start"
  /\ IF ~HasField(payloadShape, "requestType") THEN ViaRes("400 requestType is required", "done")
     ELSE IF ~HasField(payloadShape, "briefData") THEN ViaRes("400 briefData is required", "done")
     ELSE /\ rpc' = "route"
          /\ UNCHANGED <<responseSent, errorCaught>>
  /\ UNCHANGED <<payloadShape, webhookConfigured, retryCount, createdPage, propsCorrected,
                 attempts, corrections, attemptProps, assembled, pageBlocks, appendFailed,
                 successLogged, webhookPosts>>
  /\ UNCHANGED <<queueVars, asmVars, engVars, cacheVars, resVars, pureVars>>

\* Step 2: briefRouter.route(requestType); a routing error is answered through res
Route(known) ==
  /\ rpc = "route"
  /\ IF known
       THEN /\ rpc' = "schema"
            /\ UNCHANGED <<responseSent, errorCaught>>
       ELSE ViaRes("400 unknown request type", "done")
  /\ UNCHANGED <<payloadShape, webhookConfigured, retryCount, createdPage, propsCorrected,
                 attempts, corrections, attemptProps, assembled, pageBlocks, appendFailed,
                 successLogged, webhookPosts>>
  /\ UNCHANGED <<queueVars, asmVars, engVars, cacheVars, resVars, pureVars>>

\* An awaited collaborator call that either returns or throws into the outer
\* catch: Step 3 (API-retrieve-a-database), Step 4 (fetchTemplate, parseTemplate),
\* Step 10 (intelligentProcessor.analyze)
AwaitStep(from, to, ok, msg) ==
  /\ rpc = from
  /\ IF ok
       THEN /\ rpc' = to
            /\ UNCHANGED <<responseSent, errorCaught>>
       ELSE Throw(msg)
  /\ UNCHANGED <<payloadShape, webhookConfigured, retryCount, createdPage, propsCorrected,
                 attempts, corrections, attemptProps, assembled, pageBlocks, appendFailed,
                 successLogged, webhookPosts>>
  /\ UNCHANGED <<queueVars, asmVars, engVars, cacheVars, resVars, pureVars>>

\* Step 6: API-get-users inside its own try/catch; a failure is only a warning
FetchUsers(ok) ==
  /\ rpc = "users"
  /\ rpc' = "mapping"
  /\ UNCHANGED <<payloadShape, webhookConfigured, retryCount, createdPage, propsCorrected,
                 attempts, corrections, attemptProps, assembled, pageBlocks, appendFailed,
                 successLogged, responseSent, errorCaught, webhookPosts>>
  /\ UNCHANGED <<queueVars, asmVars, engVars, cacheVars, resVars, pureVars>>

\* Step 7 and 8: semanticMapper.mapProperties; result in {"success", "failure", "throws"}
MapProperties(result) ==
  /\ rpc = "mapping"
  /\ CASE result = "success" -> /\ rpc' = "create"
                                /\ UNCHANGED <<responseSent, errorCaught>>
       [] result = "failure" -> ViaRes("500 Semantic mapping failed", "done")
       [] OTHER -> Throw("mapping threw")
  /\ UNCHANGED <<payloadShape, webhookConfigured, retryCount, createdPage, propsCorrected,
                 attempts, corrections, attemptProps, assembled, pageBlocks, appendFailed,
                 successLogged, webhookPosts>>
  /\ UNCHANGED <<queueVars, asmVars, engVars, cacheVars, resVars, pureVars>>

QueueIdle ==
  /\ requestQueue = <<>>
  /\ currentlyProcessing = 0
  /\ reqState = [r \in Requests |-> "new"]
  /\ startOrder = <<>>
  /\ acceptOrder = <<>>

RequestIdle ==
  /\ rpc = "idle"
  /\ payloadShape = "none"
  /\ webhookConfigured = FALSE
  /\ retryCount = 0
  /\ createdPage = "undefined"
  /\ propsCorrected = FALSE
  /\ attempts = 0
  /\ corrections = 0
  /\ attemptProps = <<>>
  /\ assembled = 0
  /\ pageBlocks = 0
  /\ appendFailed = FALSE
  /\ successLogged = FALSE
  /\ responseSent = "none"
  /\ errorCaught = "none"
  /\ webhookPosts = <<>>

\* if (createdPage && createdPage.id && createdPage.object !== 'error')
\* Store responses: "page" (id, no error marker), "error" ({object: 'error'}),
\* "neither" (no id and no error marker, e.g. result.content or {}), and
\* "throws" (callTool throws; createdPage keeps its previous value)
\* Step 9: one iteration of `while (retryCount <= maxRetries)`: the creation
\* attempt, and in the catch block the correction request and its outcome.
\* store in {"page", "error", "neither", "throws"}; llm in {"json", "badjson", "throws"}
CreateAttempt(store, llm) ==
  \* `const notionProperties = ...`: the assignment at line 427 throws a TypeError
  LET NotionPropertiesIsConst == TRUE
  IN
  /\ rpc = "create"
  /\ attempts < MaxAttempts
  /\ attempts' = attempts + 1
  /\ attemptProps' = Append(attemptProps, IF propsCorrected THEN "corrected" ELSE "original")
  /\ createdPage' = IF store = "throws" THEN createdPage ELSE store
  /\ IF store = "page"
       THEN \* break
            /\ rpc' = "finalcheck"
            /\ UNCHANGED <<retryCount, corrections, propsCorrected>>
       ELSE IF store = "neither"
       THEN \* neither branch taken, nothing thrown: next iteration, retryCount unchanged
            /\ rpc' = "create"
            /\ UNCHANGED <<retryCount, corrections, propsCorrected>>
       ELSE \* catch (error)
            IF retryCount < maxRetries
              THEN /\ corrections' = corrections + 1
                   /\ IF llm = "json" /\ ~NotionPropertiesIsConst
                        THEN /\ propsCorrected' = TRUE
                             /\ retryCount' = retryCount + 1
                             /\ rpc' = IF retryCount + 1 <= maxRetries THEN "create" ELSE "finalcheck"
                        ELSE \* catch (correctionError): break
                             /\ rpc' = "finalcheck"
                             /\ UNCHANGED <<retryCount, propsCorrected>>
              ELSE /\ retryCount' = retryCount + 1
                   /\ rpc' = IF retryCount + 1 <= maxRetries THEN "create" ELSE "finalcheck"
                   /\ UNCHANGED <<corrections, propsCorrected>>
  /\ UNCHANGED <<payloadShape, webhookConfigured, assembled, pageBlocks, appendFailed,
                 successLogged, responseSent, errorCaught, webhookPosts>>
  /\ UNCHANGED <<queueVars, asmVars, engVars, cacheVars, resVars, pureVars>>

\* Final validation check after the loop (lines 440-450)
FinalCheck ==
  /\ rpc = "finalcheck"
  /\ IF createdPage = "page"
       THEN /\ rpc' = "analyze"
            /\ UNCHANGED <<responseSent, errorCaught>>
       ELSE ViaRes("500 Failed to create Notion page", "done")
  /\ UNCHANGED <<payloadShape, webhookConfigured, retryCount, createdPage, propsCorrected,
                 attempts, corrections, attemptProps, assembled, pageBlocks, appendFailed,
                 successLogged, webhookPosts>>
  /\ UNCHANGED <<queueVars, asmVars, engVars, cacheVars, resVars, pureVars>>

\* Step 11: smartProcessor.processTemplate returns templateBlocks (n blocks) or throws
ApplyTemplate(ok, n) ==
  /\ rpc = "assemble"
  /\ n \in {50 * k : k \in 0..MaxHalfBatches}
  /\ IF ok
       THEN /\ assembled' = n
            /\ rpc' = IF n > 0 THEN "append" ELSE "success"
            /\ UNCHANGED <<responseSent, errorCaught>>
       ELSE /\ Throw("template processing failed")
            /\ UNCHANGED assembled
  /\ UNCHANGED <<payloadShape, webhookConfigured, retryCount, createdPage, propsCorrected,
                 attempts, corrections, attemptProps, pageBlocks, appendFailed,
                 successLogged, webhookPosts>>
  /\ UNCHANGED <<queueVars, asmVars, engVars, cacheVars, resVars, pureVars>>

AppendBatch(ok) ==
  \* for (let i = 0; i < templateBlocks.length; i += BATCH_SIZE): one batch per
  \* step; a throwing API-patch-block-children call is caught at line 506, only
  \* warned about, and processing continues at Step 11 (success response)
  LET BatchLen(i, n) == IF n - i < BATCH_SIZE THEN n - i ELSE BATCH_SIZE
  IN
  /\ rpc = "append"
  /\ IF ok
       THEN /\ pageBlocks' = pageBlocks + BatchLen(pageBlocks, assembled)
            /\ rpc' = IF pageBlocks + BATCH_SIZE < assembled THEN "append" ELSE "success"
            /\ UNCHANGED appendFailed
       ELSE /\ appendFailed' = TRUE
            /\ rpc' = "success"
            /\ UNCHANGED pageBlocks
  /\ UNCHANGED <<payloadShape, webhookConfigured, retryCount, createdPage, propsCorrected,
                 attempts, corrections, attemptProps, assembled,
                 successLogged, responseSent, errorCaught, webhookPosts>>
  /\ UNCHANGED <<queueVars, asmVars, engVars, cacheVars, resVars, pureVars>>

\* Step 11 (lines 512-537): log success, send the success response through res
ReportSuccess ==
  /\ rpc = "success"
  /\ successLogged' = TRUE
  /\ ViaRes("200 Request created successfully in Notion", "done")
  /\ UNCHANGED <<payloadShape, webhookConfigured, retryCount, createdPage, propsCorrected,
                 attempts, corrections, attemptProps, assembled, pageBlocks, appendFailed,
                 webhookPosts>>
  /\ UNCHANGED <<queueVars, asmVars, engVars, cacheVars, resVars, pureVars>>

\* The body of the error notification (lines 555-564)
WebhookBody ==
  [error |-> errorCaught,
   briefData |-> IF HasField(payloadShape, "briefData") THEN "briefData" ELSE "null",
   requestType |-> IF HasField(payloadShape, "requestType") THEN "requestType" ELSE "null"]

\* catch (error), lines 539-576: log the failure; if ERROR_WEBHOOK_URL is set,
\* build the notification body and post it; a failure while doing so is caught
\* at line 570 and only logged. posted: axios.post succeeded
CatchBlock(posted) ==
  \* `let payload` is declared inside the try block, so the identifier is not
  \* bound in the catch block: payload?.briefData throws a ReferenceError
  LET PayloadInScopeAtCatch == FALSE
  IN
  /\ rpc = "catch"
  /\ rpc' = "done"
  /\ webhookPosts' = IF webhookConfigured /\ PayloadInScopeAtCatch /\ posted
                       THEN Append(webhookPosts, WebhookBody)
                       ELSE webhookPosts
  /\ UNCHANGED <<payloadShape, webhookConfigured, retryCount, createdPage, propsCorrected,
                 attempts, corrections, attemptProps, assembled, pageBlocks, appendFailed,
                 successLogged, responseSent, errorCaught>>
  /\ UNCHANGED <<queueVars, asmVars, engVars, cacheVars, resVars, pureVars>>

InitRequest ==
  \* Shapes of originalPayload that pass the hasData check of POST /create-request:
  \*   "arrayBody"  [ { body: {...} } ]            n8n array wrapper
  \*   "body"       { body: {...} }                CASE 1
  \*   "root"       { 'Asset Type': .., ... }      CASE 2
  \*   "typed"      { requestType, briefData }     no normalization needed
  \*   "briefOnly"  { briefData }                  requestType stays undefined
  \*   "bodyTyped"  { body, requestType }          briefData stays undefined
  LET PayloadShapes == {"arrayBody", "body", "root", "typed", "briefOnly", "bodyTyped"}
  IN
  /\ QueueIdle
  /\ AsmIdle
  /\ EngIdle
  /\ FetcherIdle
  /\ ResolverIdle
  /\ PureIdle
  /\ rpc = "start"
  /\ payloadShape \in PayloadShapes
  /\ webhookConfigured \in BOOLEAN
  /\ retryCount = 0
  /\ createdPage = "undefined"
  /\ propsCorrected = FALSE
  /\ attempts = 0
  /\ corrections = 0
  /\ attemptProps = <<>>
  /\ assembled = 0
  /\ pageBlocks = 0
  /\ appendFailed = FALSE
  /\ successLogged = FALSE
  /\ responseSent = "none"
  /\ errorCaught = "none"
  /\ webhookPosts = <<>>

NextRequest ==
  \/ Normalize
  \/ \E known \in BOOLEAN : Route(known)
  \/ \E ok \in BOOLEAN :
       AwaitStep("schema", "template", ok, "Tool call failed: API-retrieve-a-database")
  \/ \E ok \in BOOLEAN : AwaitStep("template", "users", ok, "Template fetch failed")
  \/ \E ok \in BOOLEAN : FetchUsers(ok)
  \/ \E result \in {"success", "failure", "throws"} : MapProperties(result)
  \/ \E store \in {"page", "error", "neither", "throws"},
        llm \in {"json", "badjson", "throws"} : CreateAttempt(store, llm)
  \/ FinalCheck
  \/ \E ok \in BOOLEAN : AwaitStep("analyze", "assemble", ok, "analysis failed")
  \/ \E ok \in BOOLEAN, n \in 0..(50 * MaxHalfBatches) : ApplyTemplate(ok, n)
  \/ \E ok \in BOOLEAN : AppendBatch(ok)
  \/ ReportSuccess
  \/ \E posted \in BOOLEAN : CatchBlock(posted)

SpecRequest == InitRequest /\ [][NextRequest]_vars

InitQueue ==
  QueueIdle /\ RequestIdle /\ AsmIdle /\ EngIdle /\ FetcherIdle /\ ResolverIdle /\ PureIdle

NextQueue ==
  \/ \E r \in Requests, hasData \in BOOLEAN : CreateRequest(r, hasData)
  \/ \E r \in Requests, failed \in BOOLEAN : RequestSettled(r, failed)

SpecQueue == InitQueue /\ [][NextQueue]_vars

\* the queue when every run of processRequestAsync settles: the promise of a
\* started run is eventually fulfilled or rejected, and .finally runs then
SpecQueueFair ==
  /\ SpecQueue
  /\ \A r \in Requests : WF_vars(\E failed \in BOOLEAN : RequestSettled(r, failed))

(***************************************************************************)
(* The templates and briefs the assembler is run on                        *)
(***************************************************************************)
\* the blocks templates are written with besides headings: the collapsible
\* instruction block with the instruction text read from it, and other blocks
TemplateParts ==
  [toggle |-> ToggleBlock(<<PlainRun(<<"H","o","w"," ","t","o"," ","f","i","l","l"," ","t","h","i","s"," ","i","n">>)>>, <<>>),
   instructions |-> { <<>>, <<"U","s","e"," ","b","u","l","l","e","t","s">> },
   others |-> {
  Block("paragraph", <<PlainRun(<<"D","e","s","c","r","i","b","e"," ","t","h","e"," ","w","o","r","k">>)>>),
  Block("paragraph", <<PlainRun(<<" "," ">>)>>) }]

\* the briefs the assembler is run on, each with the headings its templates
\* are written with
Inputs ==
  LET BudgetValues == {
        Str(<<"5","k"," ","p","e","r"," ","r","e","e","l">>),
        Num(5000),
        Bool(TRUE),
        Arr(<<>>),
        Arr(<<Str(<<"r","e","e","l">>), Num(2)>>),
        Obj(<<Entry(<<"a","m","o","u","n","t">>, Null)>>),
        Obj(<<Entry(<<"a","m","o","u","n","t">>, Num(5000)), Entry(<<"c","u","r","r","e","n","c","y">>, Str(<<"G","B","P">>)),
              Entry(<<"i","t","e","m","s">>, Arr(<<Str(<<"r","e","e","l">>)>>))>>),
        Obj(<<Entry(<<"v","i","d","e","o">>, Obj(<<Entry(<<"e","d","i","t">>, Obj(<<Entry(<<"c","u","t","s">>,
              Obj(<<Entry(<<"f","a","s","t">>, Bool(TRUE))>>))>>))>>))>>) }
  IN
  LET Heading(text) == Block("heading_2", <<PlainRun(text)>>)
  IN
  LET SmartHeadings == {
        Heading(<<"K","e","y"," ","D","e","t","a","i","l","s">>), Heading(<<"R","e","f","e","r","e","n","c","e","s">>), Heading(<<"N","o","t","e","s"," ","(","o","p","t","i","o","n","a","l",")">>),
        Heading(<<"R","a","w"," ","B","r","i","e","f">>) }
  IN
  LET PlainHeadings == { Heading(<<"B","u","d","g","e","t">>), Heading(<<"N","o","t","e","s"," ","(","o","p","t","i","o","n","a","l",")">>) }
  IN
  LET RichBrief == <<
        Entry(<<"R","a","w"," ","B","r","i","e","f">>, Str(<<"N","e","e","d"," ","a"," ","r","e","e","l","."," ","S","e","e"," ","h","t","t","p","s",":","/","/","y","o","u","t","u",".","b","e","/","x">>)),
        Entry(<<"D","u","e"," ","D","a","t","e","s">>, Str(<<"F","r","i","d","a","y">>)),
        Entry(<<"e","v","e","r","y","t","h","i","n","g","_","e","l","s","e">>, Str(<<"a","s","k"," ","S","a","m">>)) >>
  IN
  LET RichExtracted == <<
        Entry(<<"p","r","i","o","r","i","t","y">>, Str(<<"h","i","g","h">>)),
        Entry(<<"u","r","g","e","n","c","y","_","d","e","t","e","c","t","e","d">>, Bool(TRUE)),
        Entry(<<"u","r","g","e","n","c","y","_","l","e","v","e","l">>, Str(<<"C","R","I","T","I","C","A","L">>)),
        Entry(<<"u","r","g","e","n","c","y","_","s","u","m","m","a","r","y">>, Str(<<"D","u","e"," ","F","r","i","d","a","y">>)),
        Entry(<<"c","o","n","f","l","i","c","t","s">>, Arr(<<
          Obj(<<Entry(<<"e","m","o","j","i">>, Str(<<":","m","o","n","e","y","b","a","g",":">>)), Entry(<<"t","i","t","l","e">>, Str(<<"B","u","d","g","e","t">>)),
                Entry(<<"m","e","s","s","a","g","e">>, Str(<<"S","c","o","p","e"," ","e","x","c","e","e","d","s"," ","b","u","d","g","e","t">>))>>),
          Obj(<<Entry(<<"t","y","p","e">>, Str(<<"t","i","g","h","t","_","t","i","m","e","l","i","n","e">>)), Entry(<<"s","e","v","e","r","i","t","y">>, Str(<<"l","o","w">>)),
                Entry(<<"d","e","s","c","r","i","p","t","i","o","n">>, Str(<<"t","w","o"," ","d","a","y","s">>))>>) >>)) >>
  IN
  LET BudgetBrief(value) == <<
        Entry(<<"b","u","d","g","e","t">>, value),
        Entry(<<"h","e","a","d","c","o","u","n","t">>, Num(12)),
        Entry(<<"r","u","s","h">>, Bool(FALSE)) >>
  IN
  {[extracted |-> <<>>, brief |-> <<>>, headings |-> PlainHeadings],
   [extracted |-> RichExtracted, brief |-> RichBrief, headings |-> SmartHeadings]}
    \cup {[extracted |-> <<>>, brief |-> BudgetBrief(value), headings |-> PlainHeadings] :
            value \in BudgetValues}
TemplateHeadings ==
  (CHOOSE input \in Inputs : input.brief = originalBriefData).headings

InitAsm ==
  /\ QueueIdle
  /\ RequestIdle
  /\ EngIdle
  /\ FetcherIdle
  /\ ResolverIdle
  /\ PureIdle
  /\ apc = "walk"
  /\ templateBlocks = <<>>
  /\ \E input \in Inputs :
       /\ extractedData = input.extracted
       /\ originalBriefData = input.brief
  /\ finalBlocks = <<>>
  /\ currentSection = NoSection
  /\ sectionInstructions = NoInstructions
  /\ skipCurrentSection = FALSE
  /\ matchedDataFields = {}

NextAsm ==
  \/ \E block \in TemplateHeadings, response \in FlushResponses :
       StepHeading(block, response)
  \/ \E instructions \in TemplateParts.instructions :
       StepToggle(TemplateParts.toggle, instructions)
  \/ \E response \in FlushResponses : StepDivider(DividerBlock, response)
  \/ \E block \in TemplateParts.others : StepOther(block)
  \/ \E answers \in [OrganizerSites -> OrganizerResponses] : Finalize(ResponsesAt(answers))

SpecAsm == InitAsm /\ [][NextAsm]_vars

(***************************************************************************)
(* SmartTemplateProcessor.processTemplate (lines 402-495)                  *)
(***************************************************************************)
\* the answers of the reasoning service to the extraction call (lines 655-666):
\* the call throws; a JSON object; the same inside a json fence; the same
\* between two sentences; a sentence
ExtractionResponses ==
  LET object == <<"{","\"","b","u","d","g","e","t","\"",":","\"","5","k","\"",",","\"","u","r","g","e","n","c","y","_","d","e","t","e","c","t","e","d","\"",":","t","r","u","e",",","\"","u","r","g","e","n","c","y","_","s","u","m","m","a","r","y","\"",":","\"","D","u","e"," ","F","r","i","d","a","y","\"",",","\"","n","o","t","e","s","\"",":","\"","\"","}">>
  IN {[kind |-> "error", text |-> <<>>],
      [kind |-> "text", text |-> object],
      [kind |-> "text", text |-> <<"backtick","backtick","backtick","j","s","o","n","\n">> \o object \o <<"\n","backtick","backtick","backtick">>],
      [kind |-> "text", text |-> <<"H","e","r","e"," ","i","s"," ","t","h","e"," ","d","a","t","a","."," ">> \o object \o <<" ","A","n","y","t","h","i","n","g"," ","e","l","s","e","?">>],
      [kind |-> "text", text |-> <<"I"," ","c","o","u","l","d"," ","n","o","t"," ","r","e","a","d"," ","t","h","e"," ","b","r","i","e","f",".">>]}

InitEngine ==
  \* the briefs processTemplate is run on: a budget given as a sentence, and one
  \* given as an object of three fields (which the organizer is called for)
  LET EngineBriefs ==
        {input.brief : input \in {i \in Inputs :
           LET budget == Get(i.brief, <<"b","u","d","g","e","t">>)
           IN budget.t = "string" \/ callsOrganizer(budget, <<>>)}}
  IN
  /\ QueueIdle
  /\ RequestIdle
  /\ FetcherIdle
  /\ ResolverIdle
  /\ PureIdle
  /\ epc = "fetch"
  /\ isLLMOnly = FALSE
  /\ extraction = [kind |-> "none", text |-> <<>>]
  /\ urgencyEvaluation = "none"
  /\ apc = "idle"
  /\ templateBlocks = <<>>
  /\ extractedData = <<>>
  /\ originalBriefData \in EngineBriefs
  /\ finalBlocks = <<>>
  /\ currentSection = NoSection
  /\ sectionInstructions = NoInstructions
  /\ skipCurrentSection = FALSE
  /\ matchedDataFields = {}

\* Step 2 (lines 419-429): templateFetcher.fetchTemplate answers with the
\* template of the store ("notion"), with the LLM-only template ("llm_only":
\* TEMPLATE_MODE=llm_only, or hybrid mode when the store cannot be read) or
\* throws ("throws": notion_only mode when the store cannot be read)
FetchTemplateStep(outcome) ==
  /\ epc = "fetch"
  /\ isLLMOnly' = (outcome = "llm_only")
  /\ epc' = CASE outcome = "notion" -> "extract"
              [] outcome = "llm_only" -> "page"
              [] OTHER -> "threw"
  /\ UNCHANGED <<extraction, urgencyEvaluation>>
  /\ UNCHANGED <<queueVars, reqVars, asmVars, cacheVars, resVars, pureVars>>

\* generateCompletePageFromLLM (lines 2423-2560): the blocks of the reasoning
\* service when it answers with valid blocks (its prompt asks it to check the
\* dates, line 2450), createMinimalFallbackBlocks(briefData) otherwise
GeneratePage(generatedBlocks) ==
  LET briefData == originalBriefData
      rawBrief == OrElse(Get(briefData, <<"R","a","w"," ","B","r","i","e","f">>), Get(briefData, <<"r","a","w","B","r","i","e","f">>))
      briefDetails == OrElse(Get(briefData, <<"b","r","i","e","f","_","d","e","t","a","i","l","s">>), Get(briefData, <<"B","r","i","e","f"," ","D","e","t","a","i","l","s">>))
      Text(v) == IF Truthy(v) THEN ToStringJS(v) ELSE <<>>
      createMinimalFallbackBlocks ==
        (IF Truthy(rawBrief)
           THEN <<Block("heading_2", <<PlainRun(<<":","m","e","m","o",":"," ","R","a","w"," ","B","r","i","e","f">>)>>),
                  Block("paragraph", <<Run(Text(rawBrief), FALSE, TRUE)>>)>>
         ELSE <<>>)
        \o (IF Truthy(briefDetails)
              THEN <<Block("heading_2", <<PlainRun(<<":","c","l","i","p","b","o","a","r","d",":"," ","D","e","t","a","i","l","s">>)>>),
                     Block("paragraph", <<PlainRun(Text(briefDetails))>>)>>
            ELSE <<>>)
        \o <<CalloutBlock(<<PlainRun(<<":","w","a","r","n","i","n","g",":"," ","T","h","i","s"," ","p","a","g","e"," ","w","a","s"," ","c","r","e","a","t","e","d"," ","w","i","t","h"," ","m","i","n","i","m","a","l"," ","f","o","r","m","a","t","t","i","n","g"," ","d","u","e"," ","t","o"," ","a"," ","p","r","o","c","e","s","s","i","n","g"," ","i","s","s","u","e","."," ","P","l","e","a","s","e"," ","r","e","v","i","e","w"," ","a","n","d"," ","o","r","g","a","n","i","z","e"," ","m","a","n","u","a","l","l","y",".">>)>>,
                          <<":","w","a","r","n","i","n","g",":">>, "yellow_background")>>
      validBlocks == generatedBlocks
      page == IF Len(validBlocks) = 0 THEN createMinimalFallbackBlocks ELSE validBlocks
  IN
  /\ epc = "page"
  /\ epc' = "returned"
  /\ finalBlocks' = [i \in DOMAIN page |-> Out(page[i], "generated", 0, <<>>)]
  /\ urgencyEvaluation' = IF Len(validBlocks) = 0 THEN urgencyEvaluation ELSE "prompt"
  /\ UNCHANGED <<isLLMOnly, extraction>>
  /\ UNCHANGED <<templateBlocks, extractedData, originalBriefData, currentSection,
                 sectionInstructions, skipCurrentSection, matchedDataFields, apc>>
  /\ UNCHANGED <<queueVars, reqVars, cacheVars, resVars, pureVars>>

\* Steps 3, 3a, 3b, 3c (lines 431-481): extraction, the conflicts of the
\* caller (none), the completeness assessment and the novel sections; then the
\* assembler starts on the template (line 485)
ExtractStep(response) ==
  \* src/lib/completeness-checker.js, findFieldValue (81-104)
  LET RECURSIVE findFieldValue(_, _)
      findFieldValue(data, possibleKeys) ==
        LET own == SelectSeq(possibleKeys, LAMBDA key : Truthy(Get(data, key)))
            nested == SelectSeq(data, LAMBDA e :
                        e.v.t = "object" /\ Truthy(findFieldValue(e.v.items, possibleKeys)))
        IN IF own # <<>> THEN Get(data, own[1])
           ELSE IF nested # <<>> THEN findFieldValue(nested[1].v.items, possibleKeys)
           ELSE Null
      \* src/lib/completeness-checker.js, assessCompleteness (17-50)
      assessCompleteness(merged) ==
        LET coreFields == <<
              [keys |-> <<<<"p","r","o","j","e","c","t","_","n","a","m","e">>, <<"p","r","o","j","e","c","t","_","n","a","m","e">>, <<"p","r","o","j","e","c","t"," ","n","a","m","e">>, <<"p","r","o","j","e","c","t","n","a","m","e">>>>,
               label |-> <<"P","r","o","j","e","c","t"," ","N","a","m","e">>],
              [keys |-> <<<<"d","e","l","i","v","e","r","a","b","l","e","s">>, <<"d","e","l","i","v","e","r","a","b","l","e","s">>, <<"d","e","l","i","v","e","r","a","b","l","e","s">>, <<"d","e","l","i","v","e","r","a","b","l","e","s">>>>,
               label |-> <<"D","e","l","i","v","e","r","a","b","l","e","s">>],
              [keys |-> <<<<"t","i","m","e","l","i","n","e">>, <<"t","i","m","e","l","i","n","e">>, <<"t","i","m","e","l","i","n","e">>, <<"t","i","m","e","l","i","n","e">>>>,
               label |-> <<"T","i","m","e","l","i","n","e">>] >>
            flagged == SelectSeq(coreFields, LAMBDA field :
                         LET value == findFieldValue(merged, field.keys)
                         IN ~Truthy(value) \/ (value.t = "string" /\ toLowerCase(value.s) = <<"t","b","d">>))
        IN Obj(<<
          Entry(<<"c","o","m","p","l","e","t","e">>, Bool(flagged = <<>>)),
          Entry(<<"n","o","r","m","a","l","T","B","D","s">>, Arr(<<>>)),
          Entry(<<"s","o","f","t","F","l","a","g","s">>, Arr([i \in DOMAIN flagged |-> Obj(<<
            Entry(<<"f","i","e","l","d">>, Str(flagged[i].label)),
            Entry(<<"s","e","v","e","r","i","t","y">>, Str(<<"m","e","d","i","u","m">>)),
            Entry(<<"r","e","c","o","m","m","e","n","d","a","t","i","o","n">>,
                  Str(<<"R","e","c","o","m","m","e","n","d","e","d",":"," ","C","o","n","f","i","r","m"," ">> \o flagged[i].label \o <<" ","b","e","f","o","r","e"," ","p","r","o","c","e","e","d","i","n","g">>))>>)])),
          Entry(<<"c","r","i","t","i","c","a","l","M","i","s","s","i","n","g">>, Arr(<<>>)),
          Entry(<<"c","o","m","p","l","e","x","i","t","y","A","p","p","r","o","p","r","i","a","t","e">>, Bool(TRUE)) >>)
      \* src/lib/section-prioritizer.js, identifyNovelSections (155-188)
      identifyNovelSections(briefText) ==
        LET emergingTypes == <<
              [keywords |-> <<<<"n","f","t">>, <<"w","e","b","3">>, <<"b","l","o","c","k","c","h","a","i","n">>, <<"c","r","y","p","t","o">>>>,
               icon |-> <<":","g","l","o","b","e",":">>, title |-> <<"W","e","b","3"," ","&"," ","B","l","o","c","k","c","h","a","i","n"," ","R","e","q","u","i","r","e","m","e","n","t","s">>],
              [keywords |-> <<<<"a","r">>, <<"a","u","g","m","e","n","t","e","d"," ","r","e","a","l","i","t","y">>, <<"a","r"," ","f","i","l","t","e","r">>>>,
               icon |-> <<":","g","o","g","g","l","e","s",":">>, title |-> <<"A","R","/","X","R"," ","R","e","q","u","i","r","e","m","e","n","t","s">>],
              [keywords |-> <<<<"a","i"," ","g","e","n","e","r","a","t","e","d">>, <<"m","i","d","j","o","u","r","n","e","y">>, <<"d","a","l","l","-","e">>, <<"g","e","n","e","r","a","t","i","v","e">>>>,
               icon |-> <<":","r","o","b","o","t",":">>, title |-> <<"A","I","-","G","e","n","e","r","a","t","e","d"," ","C","o","n","t","e","n","t"," ","S","p","e","c","s">>],
              [keywords |-> <<<<"p","o","d","c","a","s","t">>, <<"a","u","d","i","o"," ","s","e","r","i","e","s">>, <<"v","o","i","c","e">>>>,
               icon |-> <<":","s","t","u","d","i","o","_","m","i","c","r","o","p","h","o","n","e",":">>, title |-> <<"A","u","d","i","o"," ","P","r","o","d","u","c","t","i","o","n"," ","R","e","q","u","i","r","e","m","e","n","t","s">>],
              [keywords |-> <<<<"l","i","v","e","s","t","r","e","a","m">>, <<"l","i","v","e"," ","s","t","r","e","a","m">>, <<"s","t","r","e","a","m","i","n","g">>>>,
               icon |-> <<":","s","a","t","e","l","l","i","t","e",":">>, title |-> <<"L","i","v","e"," ","S","t","r","e","a","m","i","n","g"," ","R","e","q","u","i","r","e","m","e","n","t","s">>],
              [keywords |-> <<<<"u","g","c">>, <<"u","s","e","r"," ","g","e","n","e","r","a","t","e","d"," ","c","o","n","t","e","n","t">>, <<"c","r","e","a","t","o","r"," ","c","o","n","t","e","n","t">>>>,
               icon |-> <<":","b","u","s","t","s",":">>, title |-> <<"U","G","C"," ","C","o","n","t","e","n","t"," ","G","u","i","d","e","l","i","n","e","s">>] >>
            novel == SelectSeq(emergingTypes, LAMBDA type :
                       /\ \E i \in DOMAIN type.keywords : includes(briefText, type.keywords[i])
                       /\ ~\E heading \in TemplateHeadings :
                             includes(toLowerCase(extractTextFromBlock(heading)),
                                      toLowerCase(type.title)))
        IN Arr([i \in DOMAIN novel |-> Obj(<<
          Entry(<<"n","a","m","e">>, Str(novel[i].icon \o <<" ">> \o novel[i].title)),
          Entry(<<"r","e","a","s","o","n">>, Str(<<"B","r","i","e","f"," ","m","e","n","t","i","o","n","s"," ">> \o novel[i].keywords[1] \o <<" ","c","o","n","t","e","n","t">>)),
          Entry(<<"p","r","i","o","r","i","t","y">>, Num(75)) >>)])
      \* steps 3a, 3b, 3c on the result of extractStructuredData
      Enrich(result) ==
        LET withConflicts == Spread(result.data, <<Entry(<<"c","o","n","f","l","i","c","t","s">>, Arr(<<>>))>>)
            completenessAssessment == assessCompleteness(Spread(originalBriefData, withConflicts))
            withAssessment ==
              Spread(withConflicts, <<Entry(<<"c","o","m","p","l","e","t","e","n","e","s","s","A","s","s","e","s","s","m","e","n","t">>, completenessAssessment)>>)
            novelSections ==
              identifyNovelSections(toLowerCase(JSONstringify(Obj(Spread(originalBriefData, withAssessment)))))
        IN /\ urgencyEvaluation' = IF result.parsed THEN "prompt" ELSE "keywords"
           /\ extractedData' = Spread(withAssessment, <<Entry(<<"n","o","v","e","l","S","e","c","t","i","o","n","s">>, novelSections)>>)
           \* extractedData.conflicts = .., extractedData.completenessAssessment = ..,
           \* extractedData.novelSections = .. (lines 446, 452, 463, 476) write into
           \* the object extractStructuredData returned
           /\ originalBriefData' = IF result.isArgument THEN extractedData' ELSE originalBriefData
  IN
  /\ epc = "extract"
  /\ epc' = "assemble"
  /\ extraction' = response
  /\ Enrich(extractStructuredData(originalBriefData, response))
  /\ apc' = "walk"
  /\ UNCHANGED isLLMOnly
  /\ UNCHANGED <<templateBlocks, finalBlocks, currentSection,
                 sectionInstructions, skipCurrentSection, matchedDataFields>>
  /\ UNCHANGED <<queueVars, reqVars, cacheVars, resVars, pureVars>>

\* line 494 (return processedBlocks), or the exception of the assembler leaves
\* processTemplate, which has no try block
ReturnBlocks ==
  /\ epc = "assemble"
  /\ apc \in {"done", "threw"}
  /\ epc' = IF apc = "done" THEN "returned" ELSE "threw"
  /\ UNCHANGED <<isLLMOnly, extraction, urgencyEvaluation>>
  /\ UNCHANGED <<queueVars, reqVars, asmVars, cacheVars, resVars, pureVars>>

NextEngine ==
  \/ \E outcome \in {"notion", "llm_only", "throws"} : FetchTemplateStep(outcome)
  \/ \E generatedBlocks \in {<<>>, <<Block("paragraph", <<PlainRun(<<"B","r","i","e","f">>)>>)>>} :
       GeneratePage(generatedBlocks)
  \/ \E response \in ExtractionResponses : ExtractStep(response)
  \/ \E block \in TemplateHeadings, response \in FlushResponses :
       StepHeading(block, response)
  \/ \E instructions \in TemplateParts.instructions :
       StepToggle(TemplateParts.toggle, instructions)
  \/ \E response \in FlushResponses : StepDivider(DividerBlock, response)
  \/ \E block \in TemplateParts.others : StepOther(block)
  \/ \E answers \in [OrganizerSites -> OrganizerResponses] : Finalize(ResponsesAt(answers))
  \/ ReturnBlocks

SpecEngine == InitEngine /\ [][NextEngine]_vars

(***************************************************************************)
(* src/lib/template-fetcher.js: the template cache                         *)
(***************************************************************************)
\* the databases templates are fetched for, and the complexity levels
\* (<<>> is a call without a complexity level)
CacheInputs ==
  [databaseIds |-> {<<"1","f","3","a">>, <<"2","b","7","c">>},
   complexityLevels |-> {<<>>, <<"P","i","z","z","a">>, <<"C","u","p"," ","o","f"," ","T","e","a">>}]

InitCache ==
  /\ QueueIdle
  /\ RequestIdle
  /\ AsmIdle
  /\ EngIdle
  /\ FetcherIdle
  /\ ResolverIdle
  /\ PureIdle

\* fetchTemplate(databaseId, templateType, complexityLevel) with TEMPLATE_MODE
\* hybrid or notion_only (lines 35-190): a cached template is returned; on a
\* miss the store is queried and its template cached when the store answers
fetchTemplate(databaseId, complexityLevel, storeAnswers) ==
  \* const cacheKey (lines 44-46)
  LET cacheKey ==
        IF complexityLevel # <<>>
          THEN <<"t","e","m","p","l","a","t","e","_">> \o databaseId \o <<"_">>
                 \o [i \in DOMAIN complexityLevel |->
                       IF IsSpace(complexityLevel[i]) THEN "_" ELSE complexityLevel[i]]
        ELSE <<"t","e","m","p","l","a","t","e","_">> \o databaseId
      cachedTemplate == cacheKey \in cache
  IN
  /\ cache' = IF ~cachedTemplate /\ storeAnswers THEN cache \cup {cacheKey} ELSE cache
  /\ lastFetch' = [databaseId |-> databaseId, complexityLevel |-> complexityLevel,
                   source |-> IF cachedTemplate THEN "cache" ELSE "store",
                   afterClear |-> <<databaseId, complexityLevel>> \in clearedSince]
  /\ clearedSince' = clearedSince \ {<<databaseId, complexityLevel>>}
  /\ UNCHANGED <<queueVars, reqVars, asmVars, engVars, resVars, pureVars>>

\* POST /clear-cache (server.js 584-602), clearCache(databaseId) (lines 244-256);
\* databaseId is <<>> when the request names no database
clearCache(databaseId) ==
  /\ cache' = IF databaseId # <<>> THEN cache \ {<<"t","e","m","p","l","a","t","e","_">> \o databaseId} ELSE {}
  /\ clearedSince' =
       clearedSince \cup
         {pair \in CacheInputs.databaseIds \X CacheInputs.complexityLevels :
            databaseId = <<>> \/ pair[1] = databaseId}
  /\ UNCHANGED lastFetch
  /\ UNCHANGED <<queueVars, reqVars, asmVars, engVars, resVars, pureVars>>

\* the cache drops a template stdTTL seconds after it was stored (lines 17-21)
Expire(cacheKey) ==
  /\ cacheKey \in cache
  /\ cache' = cache \ {cacheKey}
  /\ UNCHANGED <<clearedSince, lastFetch>>
  /\ UNCHANGED <<queueVars, reqVars, asmVars, engVars, resVars, pureVars>>

NextCache ==
  \/ \E databaseId \in CacheInputs.databaseIds, complexityLevel \in CacheInputs.complexityLevels,
        storeAnswers \in BOOLEAN :
       fetchTemplate(databaseId, complexityLevel, storeAnswers)
  \/ \E databaseId \in CacheInputs.databaseIds \cup {<<>>} : clearCache(databaseId)
  \/ \E cacheKey \in cache : Expire(cacheKey)

SpecCache == InitCache /\ [][NextCache]_vars

(***************************************************************************)
(* src/unnamed/part_002: TemplateApplier.getValueFromBrief                 *)
(***************************************************************************)
MaxCalls == 2           \* getValueFromBrief is called up to MaxCalls times on a brief

\* const normalizeForComparison (lines 97-102)
normalizeForComparison(str) ==
  LET lowered == toLowerCase(str)
      joined == SelectSeq(lowered, LAMBDA c : ~(c \in {"_", "-"} \/ IsSpace(c)))
  IN SelectSeq(joined, LAMBDA c :
       c \in Range(LowerLetters) \cup {"0", "1", "2", "3", "4", "5", "6", "7", "8", "9"})

\* getValueFromBrief(varName, briefData) (lines 95-166); name is varName
getValueFromBrief(name, briefData) ==
  LET IsLower(c) == c \in Range(LowerLetters)
      \* s.replace(/_([a-z])/g, ..): the letter after an underscore is replaced
      \* by With(letter in upper case), the underscore dropped
      Camel(s, With(_)) ==
        Flatten([i \in DOMAIN s |->
          IF s[i] = "_" /\ i < Len(s) /\ IsLower(s[i + 1]) THEN <<>>
          ELSE IF i > 1 /\ s[i - 1] = "_" /\ IsLower(s[i]) THEN With(ToUpperChar(s[i]))
          ELSE <<s[i]>>])
      Bare(c) == <<c>>
      Spaced(c) == <<" ", c>>
      variations == <<
        name,
        [i \in DOMAIN name |-> IF name[i] = "_" THEN " " ELSE name[i]],
        SelectSeq(name, LAMBDA c : c # "_"),
        Camel(name, Bare),
        toLowerCase(Flatten([i \in DOMAIN name |->
          IF name[i] \in Range(UpperLetters) THEN <<"_", name[i]>> ELSE <<name[i]>>])),
        IF name = <<>> THEN <<>>
        ELSE <<ToUpperChar(name[1])>> \o Camel(Tail(name), Spaced) >>
      variation == FirstIndex([i \in DOMAIN variations |->
                     Get(briefData, variations[i]).t # "undefined"])
      normalizedVar == normalizeForComparison(name)
      fuzzy == FirstIndex([i \in DOMAIN briefData |->
                 LET normalizedKey == normalizeForComparison(briefData[i].k)
                 IN \/ normalizedKey = normalizedVar
                    \/ /\ includes(normalizedKey, normalizedVar)
                            \/ includes(normalizedVar, normalizedKey)
                       /\ SimilarityAbove70(normalizedKey, normalizedVar)])
      semanticAliases == <<
        [canonical |-> <<"d","e","s","c","r","i","p","t","i","o","n">>,
         aliases |-> <<<<"b","r","i","e","f","_","d","e","t","a","i","l","s">>, <<"r","a","w","_","b","r","i","e","f">>, <<"d","e","t","a","i","l","s">>, <<"o","v","e","r","v","i","e","w">>, <<"b","r","i","e","f">>>>],
        [canonical |-> <<"p","r","o","j","e","c","t","_","n","a","m","e">>,
         aliases |-> <<<<"p","r","o","j","e","c","t"," ","n","a","m","e">>, <<"p","r","o","j","e","c","t","n","a","m","e">>, <<"t","i","t","l","e">>>>],
        [canonical |-> <<"d","u","e","_","d","a","t","e">>,
         aliases |-> <<<<"d","u","e"," ","d","a","t","e","s">>, <<"d","e","a","d","l","i","n","e">>, <<"d","u","e","d","a","t","e">>, <<"p","u","b","l","i","s","h"," ","b","y">>>>],
        [canonical |-> <<"r","e","q","u","e","s","t","e","d","_","b","y">>,
         aliases |-> <<<<"c","l","i","e","n","t"," ","n","a","m","e">>, <<"r","e","q","u","e","s","t","e","r">>, <<"r","e","q","u","e","s","t","e","d"," ","b","y"," ","n","a","m","e">>>>],
        [canonical |-> <<"p","l","a","t","f","o","r","m">>, aliases |-> <<<<"a","s","s","e","t"," ","t","y","p","e">>, <<"c","h","a","n","n","e","l">>>>],
        [canonical |-> <<"c","l","i","e","n","t","_","e","m","a","i","l">>, aliases |-> <<<<"c","o","n","t","a","c","t"," ","e","m","a","i","l">>, <<"e","m","a","i","l">>>>] >>
      Joined(s) == SelectSeq(toLowerCase(s), LAMBDA c : ~(c \in {"_", "-"} \/ IsSpace(c)))
      \* the aliases of the canonical forms the variable matches, in order
      aliases == Flatten([m \in DOMAIN semanticAliases |->
                   IF Joined(name) = SelectSeq(semanticAliases[m].canonical,
                                               LAMBDA c : ~(c \in {"_", "-"} \/ IsSpace(c)))
                     THEN semanticAliases[m].aliases ELSE <<>>])
      KeyOfAlias(alias) ==
        FirstIndex([i \in DOMAIN briefData |->
          normalizeForComparison(briefData[i].k) = normalizeForComparison(alias)])
      semantic == FirstIndex([a \in DOMAIN aliases |-> KeyOfAlias(aliases[a]) # 0])
  IN
  IF Get(briefData, name).t # "undefined" THEN Get(briefData, name)
  ELSE IF variation # 0 THEN Get(briefData, variations[variation])
  ELSE IF fuzzy # 0 THEN briefData[fuzzy].v
  ELSE IF semantic # 0 THEN briefData[KeyOfAlias(aliases[semantic])].v
  ELSE Null

InitResolver ==
  \* the briefs the resolver is run on: one or two of these keys, each key with
  \* its own value
  LET ResolverBriefs ==
        LET keys == {<<"D","u","e"," ","D","a","t","e">>, <<"d","u","e"," ","d","a","t","e">>, <<"D","U","E"," ","D","A","T","E">>, <<"D","u","e"," ","D","a","t","e","s">>, <<"D","e","a","d","l","i","n","e">>, <<"d","u","e","-","d","a","t","e">>}
            Field(key) == Entry(key, Str(<<"v",":">> \o key))
        IN {<<Field(key)>> : key \in keys}
             \cup {<<Field(pair[1]), Field(pair[2])>> :
                     pair \in {p \in keys \X keys : p[1] # p[2]}}
  IN
  /\ QueueIdle
  /\ RequestIdle
  /\ EngIdle
  /\ FetcherIdle
  /\ PureIdle
  /\ apc = "idle"
  /\ templateBlocks = <<>>
  /\ extractedData = <<>>
  /\ originalBriefData \in ResolverBriefs
  /\ finalBlocks = <<>>
  /\ currentSection = NoSection
  /\ sectionInstructions = NoInstructions
  /\ skipCurrentSection = FALSE
  /\ matchedDataFields = {}
  /\ varName \in {<<"d","u","e","_","d","a","t","e">>, <<"d","u","e","D","a","t","e">>}
  /\ resolved = <<>>

\* a call of getValueFromBrief(varName, briefData)
Resolve ==
  /\ Len(resolved) < MaxCalls
  /\ resolved' = Append(resolved, getValueFromBrief(varName, originalBriefData))
  /\ UNCHANGED varName
  /\ UNCHANGED <<queueVars, reqVars, asmVars, engVars, cacheVars, pureVars>>

\* the same brief object arrives with its keys in the other order
Reorder ==
  /\ Len(originalBriefData) = 2
  /\ originalBriefData' = <<originalBriefData[2], originalBriefData[1]>>
  /\ UNCHANGED <<apc, templateBlocks, extractedData, finalBlocks, currentSection,
                 sectionInstructions, skipCurrentSection, matchedDataFields>>
  /\ UNCHANGED <<queueVars, reqVars, engVars, cacheVars, resVars, pureVars>>

NextResolver ==
  \/ Resolve
  \/ Reorder

SpecResolver == InitResolver /\ [][NextResolver]_vars

(***************************************************************************)
(* src/Conversational-Style-Requirements.md: IntelligentProcessor,         *)
(* detectConflictsNatural                                                  *)
(***************************************************************************)
\* detectConflictsNatural(briefData, complexity) (lines 408-464); complexity
\* is not read
detectConflictsNatural(briefData) ==
  LET briefText == toLowerCase(JSONstringify(Obj(briefData)))
      \* findFieldValue(briefData, 'platforms') (lines 493-513): the four
      \* possibleKeys of 'platforms' are the same key
      RECURSIVE findFieldValue(_, _)
      findFieldValue(data, fieldKey) ==
        LET nested == SelectSeq(data, LAMBDA e :
                        e.v.t = "object" /\ Truthy(findFieldValue(e.v.items, fieldKey)))
        IN IF Truthy(Get(data, fieldKey)) THEN Get(data, fieldKey)
           ELSE IF nested # <<>> THEN findFieldValue(nested[1].v.items, fieldKey)
           ELSE Null
      PlatformText(platforms) ==
        IF platforms.t = "string" THEN platforms.s
        ELSE JSONstringify(OrElse(platforms, Str(<<>>)))
      HasAny(text, words) == \E w \in DOMAIN words : includes(toLowerCase(text), words[w])
      PlatformConflicts(platformText) ==
        IF /\ platformText # <<>>
           /\ HasAny(platformText, <<<<"i","n","s","t","a","g","r","a","m">>, <<"t","i","k","t","o","k">>,
                                     <<"r","e","e","l","s">>, <<"s","t","o","r","i","e","s">>>>)
           /\ HasAny(platformText, <<<<"y","o","u","t","u","b","e">>, <<"l","i","n","k","e","d","i","n">>,
                                     <<"v","i","m","e","o">>>>)
          THEN <<[type |-> "platform_format", durations |-> <<>>]>>
          ELSE <<>>
      \* briefText.match(/(\d+)\s*(second|sec|min)/gi) || []
      units == <<<<"s","e","c","o","n","d">>, <<"s","e","c">>, <<"m","i","n">>>>
      RECURSIVE ClassEnd(_, _, _)
      ClassEnd(s, i, class) ==
        IF i <= Len(s) /\ s[i] \in class THEN ClassEnd(s, i + 1, class) ELSE i - 1
      RECURSIVE durationMatches(_, _)
      durationMatches(s, i) ==
        IF i > Len(s) THEN <<>>
        ELSE IF s[i] \notin Range(Digits) THEN durationMatches(s, i + 1)
        ELSE LET unitAt == ClassEnd(s, ClassEnd(s, i, Range(Digits)) + 1, {" ", "\n", "\t", "\r"}) + 1
                 unit == FirstIndex([u \in DOMAIN units |->
                           startsWith(SubSeq(s, unitAt, Len(s)), units[u])])
             IN IF unit = 0 THEN durationMatches(s, i + 1)
                ELSE <<SubSeq(s, i, unitAt + Len(units[unit]) - 1)>>
                       \o durationMatches(s, unitAt + Len(units[unit]))
      \* [...new Set(durationMatches.map(d => d.toLowerCase()))]
      uniqueDurations == Dedupe(durationMatches(briefText, 1))
  IN PlatformConflicts(PlatformText(findFieldValue(briefData, <<"p","l","a","t","f","o","r","m","s">>)))
       \o (IF Len(uniqueDurations) > 1
             THEN <<[type |-> "duration_contradiction", durations |-> uniqueDurations]>>
             ELSE <<>>)

\* the briefs the analysis is run on: a length field and a notes field, each
\* with or without a duration mention, and a platforms field
InitConflicts ==
  LET mentions == {<<"3","0"," ","s","e","c","o","n","d","s">>, <<"3","0"," ","s","e","c">>,
                   <<"3","0","s","e","c","o","n","d","s">>, <<"6","0"," ","s","e","c","o","n","d","s">>,
                   <<"1"," ","m","i","n">>, <<"3","0"," ","S","e","c","o","n","d","s">>,
                   <<"3","0"," ","s","e","c","o","n","d","s"," ","o","r"," ","6","0"," ","s","e","c","o","n","d","s">>,
                   <<"s","h","o","r","t">>}
      platformValues == {Undefined, Str(<<"I","n","s","t","a","g","r","a","m">>),
                         Str(<<"Y","o","u","T","u","b","e">>),
                         Arr(<<Str(<<"T","i","k","T","o","k">>), Str(<<"L","i","n","k","e","d","I","n">>)>>)}
  IN
  /\ QueueIdle
  /\ RequestIdle
  /\ EngIdle
  /\ FetcherIdle
  /\ ResolverIdle
  /\ PureIdle
  /\ apc = "idle"
  /\ templateBlocks = <<>>
  /\ extractedData = <<>>
  /\ \E length \in mentions, notes \in mentions, platforms \in platformValues :
       originalBriefData = DropUndefined(<<
         Entry(<<"v","i","d","e","o","_","l","e","n","g","t","h">>, Str(length)),
         Entry(<<"n","o","t","e","s">>, Str(notes)),
         Entry(<<"p","l","a","t","f","o","r","m","s">>, platforms)>>)
  /\ finalBlocks = <<>>
  /\ currentSection = NoSection
  /\ sectionInstructions = NoInstructions
  /\ skipCurrentSection = FALSE
  /\ matchedDataFields = {}

\* analysis.conflicts = this.detectConflictsNatural(briefData, ..) (line 298)
DetectConflicts ==
  /\ ~analysisConflicts.returned
  /\ analysisConflicts' = [returned |-> TRUE,
                           conflicts |-> detectConflictsNatural(originalBriefData)]
  /\ UNCHANGED <<parsedFrom, parsedTemplate, splitContent, splitMaxChars, splitChunks,
                 sectionMatch>>
  /\ UNCHANGED <<queueVars, reqVars, asmVars, engVars, cacheVars, resVars>>

SpecConflicts == InitConflicts /\ [][DetectConflicts]_vars

(***************************************************************************)
(* src/unnamed/part_002: SOPParser.parseTemplate                           *)
(***************************************************************************)
MaxBlocks == 4          \* templates of up to MaxBlocks blocks are parsed

\* else if (blockType === 'toggle') (line 590): toggle blocks are the SOPs.
\* IsToggleNever is the parser with this branch never taken.
IsToggleNever(blockType) == FALSE
IsToggle(blockType) == blockType = "toggle"

\* parseTemplate(blocks) (lines 556-667).  originalBlock is the position of the
\* block in blocks; the variables of a section and the variables and embedded
\* SOPs of a content block (extractVariables, extractAllSOPs) are left out.
parseTemplate(blocks) ==
  LET \* extractSOP(text) (lines 698-706): the text of the first [SOP: ...]
      \* marker, trimmed; <<>> stands for null
      MarkerText(text, open, close) ==
        IF open = 0 \/ close = 0 THEN <<>>
        ELSE trim(SubSeq(text, open + 5, close - 1))
      extractSOP(text) ==
        MarkerText(text, IndexOfFrom(text, <<"[","S","O","P",":">>, 1),
                   IF IndexOfFrom(text, <<"[","S","O","P",":">>, 1) = 0 THEN 0
                   ELSE IndexOfFrom(text, <<"]">>, IndexOfFrom(text, <<"[","S","O","P",":">>, 1) + 5))
      Section(type, level, title, originalBlock, sops, content, conditional) ==
        [type |-> type, level |-> level, title |-> title, originalBlock |-> originalBlock,
         sops |-> sops, content |-> content, isConditional |-> conditional]
      \* current is currentSection: <<>> for null and <<section>> otherwise
      RECURSIVE Walk(_, _, _)
      Visit(i, sections, current, blockType, blockContent) ==
        \* Skip empty blocks (lines 564-567)
        IF trim(blockContent) = <<>> THEN Walk(i + 1, sections, current)
        ELSE IF blockType \in {"heading_1", "heading_2", "heading_3"}
          THEN Walk(i + 1, sections \o current,
                    <<Section("section", blockType, blockContent, i, <<>>, <<>>,
                              isConditional(blockContent))>>)
        ELSE IF IsToggle(blockType)
          THEN Walk(i + 1, sections,
                    IF current # <<>>
                      THEN <<[current[1] EXCEPT
                                !.sops = Append(@, IF extractSOP(blockContent) # <<>>
                                                     THEN extractSOP(blockContent)
                                                     ELSE trim(blockContent))]>>
                    ELSE <<Section("sop_block", "instruction",
                                   <<"P","r","o","c","e","s","s"," ","I","n","s","t","r","u","c","t","i","o","n">>, i,
                                   <<IF extractSOP(blockContent) # <<>>
                                       THEN extractSOP(blockContent) ELSE trim(blockContent)>>,
                                   <<>>, FALSE)>>)
        ELSE Walk(i + 1, sections,
                  IF current # <<>>
                    THEN <<[current[1] EXCEPT
                              !.content = Append(@, [blockType |-> blockType, originalBlock |-> i,
                                                     content |-> blockContent,
                                                     isConditional |-> isConditional(blockContent)])]>>
                  ELSE <<Section("content", "root",
                                 <<"T","e","m","p","l","a","t","e"," ","C","o","n","t","e","n","t">>, i, <<>>,
                                 <<[blockType |-> blockType, originalBlock |-> i,
                                    content |-> blockContent,
                                    isConditional |-> isConditional(blockContent)]>>, FALSE)>>)
      Walk(i, sections, current) ==
        IF i > Len(blocks) THEN sections \o current
        ELSE Visit(i, sections, current, blocks[i].type, extractTextFromBlock(blocks[i]))
  IN Walk(1, <<>>, <<>>)

\* the templates the parser is run on: up to MaxBlocks blocks, each a heading,
\* a paragraph or a collapsible block with text, or a block with no text
InitParse ==
  LET templateVocabulary == {
        Block("heading_1", <<PlainRun(<<"B","r","i","e","f">>)>>),
        Block("heading_2", <<PlainRun(<<"N","o","t","e","s"," ","(","o","p","t","i","o","n","a","l",")">>)>>),
        Block("heading_3", <<PlainRun(<<" ">>)>>),
        Block("paragraph", <<PlainRun(<<"H","e","l","l","o"," ">>), PlainRun(<<"{","{","n","a","m","e","}","}">>)>>),
        Block("paragraph", <<>>),
        ToggleBlock(<<PlainRun(<<"A","s","k"," ","S","a","m">>)>>, <<>>),
        ToggleBlock(<<PlainRun(<<"N","o","t","e"," ","[","S","O","P",":"," ","c","a","l","l"," ","J","o"," ","]"," ","e","n","d">>)>>, <<>>) }
  IN
  /\ QueueIdle
  /\ RequestIdle
  /\ AsmIdle
  /\ EngIdle
  /\ FetcherIdle
  /\ ResolverIdle
  /\ analysisConflicts = [returned |-> FALSE, conflicts |-> <<>>]
  /\ \E n \in 0..MaxBlocks : parsedFrom \in [1..n -> templateVocabulary]
  /\ parsedTemplate = [returned |-> FALSE, sections |-> <<>>]
  /\ splitContent = <<>>
  /\ splitMaxChars = 0
  /\ splitChunks = [returned |-> FALSE, finalChunks |-> <<>>]
  /\ sectionMatch = [returned |-> FALSE]

\* a call of parseTemplate(blocks)
ParseTemplate ==
  /\ ~parsedTemplate.returned
  /\ parsedTemplate' = [returned |-> TRUE, sections |-> parseTemplate(parsedFrom)]
  /\ UNCHANGED <<analysisConflicts, parsedFrom, splitContent, splitMaxChars, splitChunks,
                 sectionMatch>>
  /\ UNCHANGED <<queueVars, reqVars, asmVars, engVars, cacheVars, resVars>>

SpecParse == InitParse /\ [][ParseTemplate]_vars

\* the match of the heading at position i of the template
MatchOf(i) ==
  findMatchingDataForSectionWithTracking(
    extractTextFromBlock(templateBlocks[i]), extractedData,
    cleanOriginalDataOf(originalBriefData))

\* the headings and briefs the section matcher is run on: headings of short
\* words and of long words, briefs of up to two fields, and extracted data
\* with or without a field
InitMatch ==
  LET headingTexts == {<<"D","u","e"," ","b","y">>, <<"T","e","a","m">>, <<"T","h","e"," ","S","h","o","o","t">>, <<"D","a","t","e"," ","o","f"," ","D","e","l","i","v","e","r","y">>,
                       <<"S","h","o","o","t"," ","L","o","c","a","t","i","o","n">>, <<"C","o","s","t">>, <<"T","i","m","e","l","i","n","e">>, <<"W","h","o">>}
      briefKeys == {<<"h","e","a","d","c","o","u","n","t">>, <<"s","h","o","o","t","_","l","o","c","a","t","i","o","n">>, <<"d","e","l","i","v","e","r","y"," ","d","a","t","e">>, <<"d","e","a","d","l","i","n","e">>}
      Field(key) == Entry(key, Str(<<"t","b","c">>))
      briefs == {<<>>} \cup {<<Field(k)>> : k \in briefKeys}
                  \cup {<<Field(pair[1]), Field(pair[2])>> :
                          pair \in {kk \in briefKeys \X briefKeys : kk[1] # kk[2]}}
  IN
  /\ QueueIdle
  /\ RequestIdle
  /\ EngIdle
  /\ FetcherIdle
  /\ ResolverIdle
  /\ PureIdle
  /\ apc = "idle"
  /\ \E text \in headingTexts : templateBlocks = <<Block("heading_2", <<PlainRun(text)>>)>>
  /\ extractedData \in {<<>>, <<Field(<<"t","i","m","e","l","i","n","e">>)>>}
  /\ originalBriefData \in briefs
  /\ finalBlocks = <<>>
  /\ currentSection = NoSection
  /\ sectionInstructions = NoInstructions
  /\ skipCurrentSection = FALSE
  /\ matchedDataFields = {}

\* const matchResult = this.findMatchingDataForSectionWithTracking(headingText,
\* extractedData, cleanOriginalData) (line 785)
MatchSection ==
  /\ ~sectionMatch.returned
  /\ sectionMatch' = [returned |-> TRUE] @@ MatchOf(1)
  /\ UNCHANGED <<analysisConflicts, parsedFrom, parsedTemplate, splitContent, splitMaxChars,
                 splitChunks>>
  /\ UNCHANGED <<queueVars, reqVars, asmVars, engVars, cacheVars, resVars>>

SpecMatch == InitMatch /\ [][MatchSection]_vars

(***************************************************************************)
(* intelligentSplit applied to one string                                  *)
(***************************************************************************)
MaxContentLen == 5

\* the strings the splitter is run on: up to MaxContentLen characters of
\* text, sentence terminators, spaces and newlines, with limits small enough
\* that the strings are longer than the limit
InitSplit ==
  LET alphabet == {"a", ".", " ", "\n"}
  IN
  /\ QueueIdle
  /\ RequestIdle
  /\ AsmIdle
  /\ EngIdle
  /\ FetcherIdle
  /\ ResolverIdle
  /\ analysisConflicts = [returned |-> FALSE, conflicts |-> <<>>]
  /\ parsedFrom = <<>>
  /\ parsedTemplate = [returned |-> FALSE, sections |-> <<>>]
  /\ \E n \in 0..MaxContentLen : splitContent \in [1..n -> alphabet]
  /\ splitMaxChars \in {2, 3}
  /\ splitChunks = [returned |-> FALSE, finalChunks |-> <<>>]
  /\ sectionMatch = [returned |-> FALSE]

\* a call of intelligentSplit(content, maxChars)
IntelligentSplit ==
  /\ ~splitChunks.returned
  /\ splitChunks' = [returned |-> TRUE,
                     finalChunks |-> intelligentSplit(splitContent, splitMaxChars)]
  /\ UNCHANGED <<analysisConflicts, parsedFrom, parsedTemplate, splitContent, splitMaxChars,
                 sectionMatch>>
  /\ UNCHANGED <<queueVars, reqVars, asmVars, engVars, cacheVars, resVars>>

SpecSplit == InitSplit /\ [][IntelligentSplit]_vars

\* C1: in the assembled output, every heading emitted for a section whose
\* match succeeded is directly followed by at least one content block generated
\* for that section, whatever the type of the matched value.
C1_HeadingFollowedByContent ==
  apc = "done" =>
    \A i \in DOMAIN finalBlocks :
      (finalBlocks[i].origin = "template" /\ IsHeadingType(finalBlocks[i].block.type)) =>
        /\ i < Len(finalBlocks)
        /\ finalBlocks[i + 1].origin = "generated"
        /\ finalBlocks[i + 1].tpl = finalBlocks[i].tpl

\* C7: after assembly, every brief field whose key is neither recorded in
\* matchedDataFields nor on the systemFields deny-list is listed under
\* Additional Information: a sub-heading that is the key verbatim, and at least
\* one block for its value, which for a string, number or boolean carries the
\* value's text.
C7_LeftoverListedVerbatim ==
  apc = "done" =>
    \A n \in DOMAIN originalBriefData :
      LET key == originalBriefData[n].k
          value == originalBriefData[n].v
      IN (key \notin matchedDataFields /\ key \notin systemFields) =>
           /\ \E i \in DOMAIN finalBlocks :
                /\ finalBlocks[i].origin = "additional"
                /\ finalBlocks[i].block.type = "heading_3"
                /\ extractTextFromBlock(finalBlocks[i].block) = key
           /\ \E i \in DOMAIN finalBlocks :
                /\ finalBlocks[i].origin = "additional"
                /\ finalBlocks[i].field = key
                /\ finalBlocks[i].block.type # "heading_3"
                /\ value.t \in {"string", "number", "boolean"} =>
                     includes(extractTextFromBlock(finalBlocks[i].block), ToStringJS(value))

\* C8: for every heading whose data a smart-aggregation rule supplied, the key
\* recorded in matchedDataFields is a synthetic _smart_ key, and after assembly
\* none of the fields the rule read its data from is listed under Additional
\* Information.
C8_SmartRuleConsumesItsFields ==
  apc # "threw" =>
    \A i \in DOMAIN templateBlocks :
      LET clean == cleanOriginalDataOf(originalBriefData)
      IN (IsHeadingType(templateBlocks[i].type) /\ MatchOf(i).stage = "smart") =>
           /\ startsWith(MatchOf(i).matchedKey, <<"_","s","m","a","r","t","_">>)
           /\ MatchOf(i).matchedKey \in matchedDataFields
           /\ apc = "done" =>
                \A key \in smartRuleFields(MatchOf(i).matchedKey, extractedData, clean) :
                  ~\E j \in DOMAIN finalBlocks :
                      finalBlocks[j].origin = "additional" /\ finalBlocks[j].field = key

\* C9: a section whose heading matches no data is left out of the output whole
\* (its heading, the template blocks up to the next heading or divider, and any
\* generated content) when the template marks it conditional; when the template
\* does not mark it conditional, the section is kept: its heading is in the
\* output.
C9_UnmatchedSkippedUnlessRequired ==
  \* the section of the heading at position i of the template ends with the
  \* block before the next heading, or with the next divider
  LET SectionEnd(i) ==
        LET closing == {j \in (i + 1)..Len(templateBlocks) :
                          \/ IsHeadingType(templateBlocks[j].type)
                          \/ templateBlocks[j].type = "divider"}
            first == CHOOSE j \in closing : \A k \in closing : j <= k
        IN IF closing = {} THEN Len(templateBlocks)
           ELSE IF templateBlocks[first].type = "divider" THEN first ELSE first - 1
  IN
  apc # "threw" =>
    \A i \in DOMAIN templateBlocks :
      (IsHeadingType(templateBlocks[i].type) /\ ~(MatchOf(i).found /\ Truthy(MatchOf(i).data))) =>
        IF isConditional(extractTextFromBlock(templateBlocks[i]))
          THEN ~\E j \in DOMAIN finalBlocks :
                  /\ finalBlocks[j].origin \in {"template", "generated"}
                  /\ finalBlocks[j].tpl \in i..SectionEnd(i)
          ELSE \E j \in DOMAIN finalBlocks :
                  finalBlocks[j].origin = "template" /\ finalBlocks[j].tpl = i

\* C10: a step of the walk over a block that is not a heading, a toggle or a
\* divider leaves the output unchanged while a section is open (with data or
\* skipped), and outside a section either leaves it unchanged or appends that
\* block as it is; a step over a toggle never changes the output, and no
\* template toggle is ever in the output.
C10_BoilerplateOnlyOutsideSections ==
  [][(apc = "walk" /\ Len(templateBlocks') = Len(templateBlocks) + 1) =>
       LET position == Len(templateBlocks')
           block == templateBlocks'[position]
       IN /\ block.type = "toggle" => finalBlocks' = finalBlocks
          /\ (~IsHeadingType(block.type) /\ block.type \notin {"toggle", "divider"}) =>
               IF ~currentSection.set /\ ~skipCurrentSection
                 THEN finalBlocks' \in
                        {finalBlocks, Append(finalBlocks, Out(block, "template", position, <<>>))}
                 ELSE finalBlocks' = finalBlocks
          /\ \A j \in DOMAIN finalBlocks' :
               ~(finalBlocks'[j].origin = "template" /\ finalBlocks'[j].block.type = "toggle")
    ]_vars

\* C10 witness: a paragraph met before any section was copied, a paragraph met
\* in a section with data was not
C10_Witness ==
  /\ Len(templateBlocks) = 3
  /\ templateBlocks[1].type = "paragraph"
  /\ IsHeadingType(templateBlocks[2].type)
  /\ templateBlocks[3].type = "paragraph"
  /\ HasData(currentSection)
  /\ [j \in DOMAIN finalBlocks |-> finalBlocks[j].tpl] = <<1, 2>>

\* C6: at every moment 0 <= currentlyProcessing <= MAX_CONCURRENT, under any
\* interleaving of request arrivals and processing completions.
C6_ConcurrencyBounded ==
  /\ currentlyProcessing >= 0
  /\ currentlyProcessing <= MAX_CONCURRENT

\* a request is waiting while every slot is taken and some run has already finished
C6_Witness ==
  /\ currentlyProcessing = MAX_CONCURRENT
  /\ Len(requestQueue) > 0
  /\ \E r \in Requests : reqState[r] \in {"finishedOk", "finishedFailed"}

\* C2: every processed request ends in exactly one of two outcomes: the created
\* page holds the complete assembled block list and the request is reported as
\* successful, or an explicit terminal error is reported; a page holding only
\* part of the assembled blocks is never left in place while the request is
\* reported as successful.
C2_CompleteOrError ==
  rpc = "done" =>
    /\ \/ (successLogged /\ pageBlocks = assembled /\ errorCaught = "none")
       \/ (~successLogged /\ errorCaught # "none")
    /\ ~(successLogged /\ pageBlocks < assembled)

\* C3: the page-creation loop performs at most 3 creation attempts and at most
\* 2 correction requests, for every sequence of store responses.
C3_BoundedLoop ==
  /\ attempts <= maxRetries + 1
  /\ corrections <= maxRetries

\* C4: whenever processing ends in a terminal failure and an error-notification
\* URL is configured, exactly one notification is sent, carrying the error
\* message, the brief data and the request type of the original request.
C4_FailureNotifiedOnce ==
  (rpc = "done" /\ errorCaught # "none" /\ webhookConfigured) =>
    /\ Len(webhookPosts) = 1
    /\ webhookPosts[1] = WebhookBody

\* C5: a request whose property mapping, page creation and every block append
\* succeed runs to completion without its failure path being entered.
C5_NoFailurePathOnSuccess ==
  (successLogged /\ ~appendFailed /\ pageBlocks = assembled) => rpc \notin {"catch"} /\ errorCaught = "none"

C12_CalloutsFormPrefix ==
  apc = "done" =>
    LET callouts == {j \in DOMAIN finalBlocks : finalBlocks[j].origin = "callout"}
        conflicts == Get(extractedData, <<"c","o","n","f","l","i","c","t","s">>)
        urgent == Truthy(Get(extractedData, <<"u","r","g","e","n","c","y","_","d","e","t","e","c","t","e","d">>))
    IN /\ callouts = 1..Cardinality(callouts)
       /\ Cardinality(callouts) =
            (IF urgent THEN 1 ELSE 0) + (IF conflicts.t = "array" THEN Len(conflicts.items) ELSE 0)
       /\ \A j \in callouts : finalBlocks[j].block.type = "callout"

\* C12 witness: an urgent brief with two conflicts whose finished output holds
\* the three callouts and, after them, a section and Additional Information
C12_Witness ==
  /\ apc = "done"
  /\ Cardinality({j \in DOMAIN finalBlocks : finalBlocks[j].origin = "callout"}) = 3
  /\ \E j \in DOMAIN finalBlocks : finalBlocks[j].origin = "generated"
  /\ finalBlocks[Len(finalBlocks)].origin = "additional"

\* C13: in every block the generator emitted (section content and Additional
\* Information content alike) toggles are nested at most 2 levels deep: a
\* toggle inside a toggle holds no further toggle, whatever the nesting depth
\* of the data; the object met below that depth is an inline paragraph.
C13_ToggleNestingAtMostTwo ==
  LET Toggles(blocks) == {i \in DOMAIN blocks : blocks[i].type = "toggle"}
  IN \A j \in DOMAIN finalBlocks :
       finalBlocks[j].origin \in {"generated", "additional"} =>
         LET first == finalBlocks[j].block
         IN first.type = "toggle" =>
              \A i \in Toggles(first.children) :
                Toggles(first.children[i].children) = {}

\* C13 witness: the brief whose budget is an object nested four levels deep was
\* assembled: its content is a toggle holding a toggle that holds, in place of
\* the third level, one paragraph with the bold key and the inline summary
C13_Witness ==
  /\ apc = "done"
  /\ \E j \in DOMAIN finalBlocks :
       /\ finalBlocks[j].origin = "generated"
       /\ finalBlocks[j].block.type = "toggle"
       /\ Len(finalBlocks[j].block.children) = 1
       /\ LET second == finalBlocks[j].block.children[1]
          IN /\ second.type = "toggle"
             /\ Len(second.children) = 1
             /\ second.children[1].type = "paragraph"
             /\ second.children[1].rich_text[1].content = <<"c","u","t","s",":"," ">>
             /\ second.children[1].rich_text[1].bold

\* C14: when the answer of the extraction call does not parse as JSON but the
\* text from its first "{" to its last "}" does, the extracted data are the
\* fields of that second parse (null and empty fields dropped); the minimal
\* object made of the brief and the keyword urgency boolean is used only when
\* the second parse fails too.
C14_BraceBoundaryBeforeFallback ==
  (epc = "assemble" /\ extraction.kind = "text") =>
    LET text == trim(extraction.text)
        braces(ch) == SelectSeq([i \in DOMAIN text |-> i], LAMBDA i : text[i] = ch)
        first == braces("{")[1]
        last == braces("}")[Len(braces("}"))]
        second == JSONparse(SubSeq(text, first, last))
        recoverable ==
          /\ ~JSONparse(text).ok
          /\ braces("{") # <<>>
          /\ braces("}") # <<>>
          /\ second.ok
        fields == SelectSeq(second.value, LAMBDA e :
                    e.v.t \notin {"null", "undefined"} /\ e.v # Str(<<>>))
    IN /\ recoverable =>
            /\ urgencyEvaluation = "prompt"
            /\ \A i \in DOMAIN fields : Get(extractedData, fields[i].k) = fields[i].v
       /\ urgencyEvaluation = "keywords" => ~recoverable

\* C15: a run of processTemplate whose extraction call threw or answered with
\* text that is not JSON ends by returning a non-empty block list built from
\* the fallback data; no exception leaves processTemplate, whatever the
\* organization calls of the run answer.
C15_ReasoningFailuresAbsorbed ==
  (epc \in {"returned", "threw"} /\ urgencyEvaluation = "keywords") =>
    /\ epc = "returned"
    /\ finalBlocks # <<>>

\* C16: the content emitted for a section the organization call was made for
\* is either the conversion of a layout whose every descriptor has a known
\* block type and non-empty content, or the mechanical generation; a layout
\* with an unknown type or an empty content contributes no block.
C16_LayoutUsedOnlyIfWhollyValid ==
  [][(/\ apc = "walk"
      /\ apc' = "walk"
      /\ Len(templateBlocks') = Len(templateBlocks) + 1
      /\ templateBlocks'[Len(templateBlocks')].type = "divider"
      /\ FlushNeeded
      /\ callsOrganizer(currentSection.data, currentSection.heading)) =>
       LET added == SubSeq(finalBlocks', Len(finalBlocks) + 1, Len(finalBlocks'))
           generated == SelectSeq(added, LAMBDA out : out.origin = "generated")
           NonEmpty(d) ==
             CASE d.type = "divider" -> TRUE
               [] d.type = "bulleted_list" -> d.items.t = "array" /\ d.items.items # <<>>
               [] OTHER -> d.content.t = "string" /\ d.content.s # <<>>
           Valid(layout) ==
             \A i \in DOMAIN layout :
               /\ layout[i].type \in {"heading_2", "heading_3", "paragraph",
                                      "bulleted_list", "divider"}
               /\ NonEmpty(layout[i])
           mechanical == generateContentBlocksForSection(
                           currentSection.data, currentSection.heading, 0, NoOrganization)
           allowed ==
             {mechanical} \cup
               {convertOrganizedToNotionBlocks(response.blocks) :
                  response \in {r \in OrganizerResponses : r.ok /\ Valid(r.blocks)}}
       IN [i \in DOMAIN generated |-> generated[i].block] \in allowed
    ]_vars

\* C17: whenever processTemplate has returned a document, the urgency
\* evaluation has run for the brief (by the reasoning service or by the
\* keyword check), in every template mode and on every fallback path.
C17_UrgencyEvaluatedBeforeEmission ==
  epc = "returned" => urgencyEvaluation # "none"

\* C18: a fetchTemplate call that follows a clearing of the cache for its
\* database (by that databaseId or by a request naming none), with no fetch
\* for the same database and complexity level in between, does not return a
\* cached template: it queries the store.
C18_FetchAfterClearReadsStore ==
  lastFetch.afterClear => lastFetch.source = "store"

\* C19: the values getValueFromBrief returns for a variable name on a brief
\* are all the same, whatever the order of the keys at each call and however
\* often it is called; "due_date" resolves to v against {"Due Date": v} and
\* against {"due date": v}.
C19_ResolverOrderIndependent ==
  /\ \A i \in DOMAIN resolved, j \in DOMAIN resolved : resolved[i] = resolved[j]
  /\ (/\ resolved # <<>>
      /\ varName = <<"d","u","e","_","d","a","t","e">>
      /\ Len(originalBriefData) = 1
      /\ originalBriefData[1].k \in {<<"D","u","e"," ","D","a","t","e">>,
                                     <<"d","u","e"," ","d","a","t","e">>})
       => resolved[1] = originalBriefData[1].v

\* C20: when a key of the brief equals the variable name after normalization,
\* the value returned is the value of such a key, also when a key that matches
\* only by containment with similarity above 0.7 comes first in the brief.
C20_NormalizedExactBeforeContainment ==
  LET normalizedVar == normalizeForComparison(varName)
      exact == {i \in DOMAIN originalBriefData :
                  normalizeForComparison(originalBriefData[i].k) = normalizedVar}
  IN (resolved # <<>> /\ exact # {}) =>
       \A c \in DOMAIN resolved : resolved[c] \in {originalBriefData[i].v : i \in exact}


\* C21: conflict detection yields exactly one duration-contradiction conflict
\* when the brief text mentions more than one distinct duration value, and none
\* otherwise; mentions of one value count once whatever the spelling of the
\* unit ("30 seconds", "30 sec", "30seconds").
C21_OneDurationConflictIffDistinctValues ==
  LET briefText == toLowerCase(JSONstringify(Obj(originalBriefData)))
      IsDigit(c) == c \in Range(Digits)
      DigitValue(c) == (CHOOSE d \in DOMAIN Digits : Digits[d] = c) - 1
      RECURSIVE ValueOf(_)
      ValueOf(digits) ==
        IF digits = <<>> THEN 0
        ELSE 10 * ValueOf(SubSeq(digits, 1, Len(digits) - 1)) + DigitValue(digits[Len(digits)])
      \* the durations mentioned: a number that starts at from, ends at to and is
      \* followed, after optional white space, by a unit of seconds or of minutes
      UnitAfter(to) ==
        LET rest == TrimLeft(SubSeq(briefText, to + 1, Len(briefText)))
        IN IF startsWith(rest, <<"s","e","c">>) THEN "seconds"
           ELSE IF startsWith(rest, <<"m","i","n">>) THEN "minutes"
           ELSE "none"
      valuesMentioned ==
        {<<ValueOf(SubSeq(briefText, span[1], span[2])), UnitAfter(span[2])>> :
           span \in {sp \in (DOMAIN briefText) \X (DOMAIN briefText) :
                       /\ sp[1] <= sp[2]
                       /\ \A i \in sp[1]..sp[2] : IsDigit(briefText[i])
                       /\ sp[1] = 1 \/ ~IsDigit(briefText[sp[1] - 1])
                       /\ sp[2] = Len(briefText) \/ ~IsDigit(briefText[sp[2] + 1])
                       /\ UnitAfter(sp[2]) # "none"}}
      durationConflicts ==
        SelectSeq(analysisConflicts.conflicts, LAMBDA c : c.type = "duration_contradiction")
  IN analysisConflicts.returned =>
       Len(durationConflicts) = IF Cardinality(valuesMentioned) > 1 THEN 1 ELSE 0

C24_CorrectionIsFollowedByReattempt ==
  [][(/\ retryCount < maxRetries
      /\ \E store \in {"error", "throws"} : CreateAttempt(store, "json"))
       => (rpc' = "create" /\ propsCorrected')]_vars

\* C25: provided every run eventually finishes, every request accepted into
\* the queue is eventually taken from it and processed exactly once, requests
\* start in the order they were enqueued, and every finished run, successful
\* or failed, has released exactly one slot (the slots taken are the runs
\* that have not finished).
C25_QueueDrainsInOrder ==
  /\ [](/\ \A i, j \in DOMAIN startOrder : i # j => startOrder[i] # startOrder[j]
        /\ Len(startOrder) <= Len(acceptOrder)
        /\ startOrder = SubSeq(acceptOrder, 1, Len(startOrder))
        /\ requestQueue = SubSeq(acceptOrder, Len(startOrder) + 1, Len(acceptOrder))
        /\ currentlyProcessing = Cardinality({r \in Requests : reqState[r] = "running"})
        /\ \A r \in Requests :
             reqState[r] \in {"running", "finishedOk", "finishedFailed"}
               <=> \E i \in DOMAIN startOrder : startOrder[i] = r)
  /\ \A r \in Requests :
       (reqState[r] = "queued") ~> (reqState[r] \in {"finishedOk", "finishedFailed"})

\* every request was accepted, some had to wait for a slot, and all were
\* processed, one of them after a run that failed
C25_Witness ==
  /\ Len(acceptOrder) = NumRequests
  /\ Len(startOrder) = NumRequests
  /\ currentlyProcessing = 0
  /\ \E r \in Requests : reqState[r] = "finishedFailed"
  /\ \E r \in Requests : reqState[r] = "finishedOk"

\* C26: the queue is work-conserving.  Between two handlers (every state of
\* the model: enqueueRequest and the finally callback run to completion), a
\* non-empty request queue means currentlyProcessing equals MAX_CONCURRENT;
\* no request waits while a slot is free.
C26_WorkConserving ==
  Len(requestQueue) > 0 => currentlyProcessing = MAX_CONCURRENT

\* a request waits in the queue after a run has finished and its slot has
\* been taken by the request that waited before it
C26_Witness ==
  /\ Len(requestQueue) > 0
  /\ currentlyProcessing = MAX_CONCURRENT
  /\ Len(startOrder) = MAX_CONCURRENT + 1
  /\ \E r \in Requests : reqState[r] \in {"finishedOk", "finishedFailed"}

\* C27: within one assembly run a data key that has been used to fill one
\* section heading is not used again to fill another section heading of the
\* same template: two headings of the template that were both matched to data
\* have different matched keys.
C27_KeyFillsOneHeading ==
  \A i, j \in DOMAIN templateBlocks :
    ( /\ i < j
      /\ IsHeadingType(templateBlocks[i].type)
      /\ IsHeadingType(templateBlocks[j].type)
      /\ MatchOf(i).found /\ Truthy(MatchOf(i).data)
      /\ MatchOf(j).found /\ Truthy(MatchOf(j).data) )
    => MatchOf(i).matchedKey # MatchOf(j).matchedKey

\* C28: whenever the section matcher returns a match at its last (word
\* overlap) stage, at least one word of the heading occurs as a substring of
\* the matched key; a heading that shares no word with any data key and fails
\* all earlier stages is reported as unmatched.
C28_WordStageMatchSharesAWord ==
  LET headingWords == SelectSeq(SplitSpaces(toLowerCase(CleanHeading(
                        extractTextFromBlock(templateBlocks[1]))), <<>>),
                        LAMBDA w : w # <<>>)
      Shares(key) == \E i \in DOMAIN headingWords : includes(toLowerCase(key), headingWords[i])
      allData == Spread(extractedData, cleanOriginalDataOf(originalBriefData))
  IN
  sectionMatch.returned =>
    /\ sectionMatch.stage = "words" => Shares(sectionMatch.matchedKey)
    /\ (~\E n \in DOMAIN allData : Shares(allData[n].k)) =>
          (~sectionMatch.found \/ sectionMatch.stage # "words")

\* C29: every chunk returned by intelligentSplit(content, maxChars) has
\* length at most maxChars, for every input string, one with no paragraph or
\* sentence boundary included.
C29_ChunksWithinLimit ==
  splitChunks.returned =>
    \A i \in DOMAIN splitChunks.finalChunks :
      Len(splitChunks.finalChunks[i]) <= splitMaxChars

\* C30: splitting loses no text: the chunks returned by intelligentSplit,
\* concatenated in order, contain every character of the input that is not
\* white space, in the original order, the text after the last sentence
\* terminator included.
C30_SplitLosesNoText ==
  LET RECURSIVE Contains(_, _)
      \* the characters of part occur in whole, in this order
      Contains(whole, part) ==
        IF part = <<>> THEN TRUE
        ELSE IF whole = <<>> THEN FALSE
        ELSE IF Head(whole) = Head(part) THEN Contains(Tail(whole), Tail(part))
        ELSE Contains(Tail(whole), part)
  IN
  splitChunks.returned =>
    Contains(Flatten(splitChunks.finalChunks),
             SelectSeq(splitContent, LAMBDA c : ~IsSpace(c)))
====
